---- MODULE Spec2Model ----
(***************************************************************************)
(* Stream resolution, caching and concurrency core of the YouTube live     *)
(* proxy: the cache-aside resolver with its store-based lock               *)
(* (stream_resolver.py, cache_service.py), the extractor's admission gate  *)
(* (ytdlp_service.py), the retry wrapper (utils/retry.py) and the batch    *)
(* validator (channel_validator.py).                                       *)
(*                                                                         *)
(* Several specifications share the module, each with the other parts      *)
(* idle:                                                                   *)
(*   Spec         concurrent get_stream_url calls over the shared store    *)
(*   SpecLock     direct acquire_lock / release_lock calls on the store    *)
(*   SpecRetry    one run of retry_with_backoff                            *)
(*   SpecValidate one validate_channels_async batch beside direct callers  *)
(*                of the global extractor                                  *)
(*   SpecTask     one _validate_channels_task                              *)
(*   SpecSlots    concurrent extract_stream_url calls on one extractor     *)
(*   SpecRecord   _sync_fetch_stream_url and _is_expired under one clock   *)
(* and the further ones introduced where they are defined.                 *)
(*                                                                         *)
(* Time is abstracted to events: a lock key lapsing (LockExpire), a cache  *)
(* key lapsing (TtlLapse) and the clock passing a record's expires_at      *)
(* (RecordExpire).  A store operation either reaches the store (ok) or     *)
(* fails, which the cache_service methods turn into None / False.          *)
(***************************************************************************)
EXTENDS Integers, Sequences, FiniteSets, TLC

\* ---------------------------------------------------------------- bounds
\* Concurrent callers (of get_stream_url, of the lock, of the extractor).
NumCallers == 2
\* Longest channel list given to validate_channels_async.
NumItems == 3
\* The number of items of the batch whose gates are checked: one more than
\* the validator's gate admits.
NumTasks == 4
\* Largest max_retries given to retry_with_backoff.
MaxRetries == 2

\* ------------------------------------------------------ program constants
\* config.py: MAX_CONCURRENT_YTDLP_REQUESTS, the size of YtdlpService.semaphore.
MAX_CONCURRENT_YTDLP_REQUESTS == 3
\* config.py: YTDLP_MAX_RETRIES, default 3.
YTDLP_MAX_RETRIES == 3
\* channel_validator.py: asyncio.Semaphore(3) of ChannelValidator.
VALIDATOR_CONCURRENCY == 3

Callers == 1..NumCallers
Channels == {"c1", "c2"}
\* The channel the concurrent callers of Spec ask for.
CalledChannels == {"c1"}

VARIABLES
    \* the store and get_stream_url
    stream,         \* store keys "stream:<channel>": channel -> record
    lock,           \* store keys "lock:<channel>": channel -> creator of the key
    pc,             \* get_stream_url: position of each caller
    chan,           \* get_stream_url: channel_name of each call
    use_cache,      \* get_stream_url: use_cache of each call
    lock_acquired,  \* get_stream_url: local lock_acquired
    result,         \* get_stream_url: the value returned
    semaphore,      \* the global ytdlp_service.semaphore: free slots
    extractRes,     \* history: outcome of the call's extract_stream_url
    released,       \* history: outcome of the call's release_lock
    quiet,          \* history: no store operation failed and no key lapsed so far
    allFailed,      \* history: no store operation succeeded so far
    stream0,        \* history: the stream keys of the initial state
    hist,           \* history: per call, what its steps did (see NoHist)
    \* direct calls of acquire_lock / release_lock
    lastCall,       \* history: the last call, its store state before, its return
    holders,        \* history: per key, the callers told True since the key was last absent
    timed_out,      \* history: per key, the holders when its timeout last removed it
    \* retry_with_backoff
    r_cfg,          \* max_retries, initial_delay, max_delay, exponential_base, jitter
    r_pc,           \* "try", "sleep", "returned", "raised"
    r_attempt,      \* the loop variable attempt
    r_calls,        \* history: the number of invocations of func
    r_errs,         \* history: the errors raised by func, in order
    r_delays,       \* history: the delays slept, in half seconds
    r_out,          \* the value returned or the error raised to the caller
    \* validate_channels_async
    v_channels,     \* the input list: the url of each item, 0 for an empty or missing url
    v_shared,       \* ChannelValidator was given the global ytdlp_service
    v_callback,     \* a progress_callback was given
    v_main,         \* "idle", "loop", "returned"
    v_task,         \* per item: "none", "gate", "extract", "running", "finished", "consumed"
    v_status,       \* per item: the status of its ChannelValidationResult
    v_doneq,        \* as_completed: finished tasks not yet yielded, in completion order
    v_sem,          \* ChannelValidator.semaphore: free slots
    y_sem,          \* the semaphore of the validator's own YtdlpService: free slots
    v_results,      \* local results
    v_validated,    \* local validated
    v_reported,     \* history: the validated values passed to progress_callback
    v_cause,        \* history: per item, how its extraction ended
    x_pc,           \* direct callers of the global extractor: "idle", "waiting", "running"
    \* batch_get_streams
    b_channels,     \* the number of channels in the input list
    b_timeout,      \* a timeout was given
    b_main,         \* "idle", "waiting", "returned"
    b_task,         \* per channel: "running", "cancelled", or its get_stream_url result
    b_out,          \* the dict returned: channel -> result
    b_timedout,     \* history: asyncio.wait_for raised TimeoutError
    \* one extract_stream_url call, with its retry_with_backoff
    e_pc,           \* "idle", "running", "done"
    e_tool,         \* history: how each run of the external tool ended
    e_val,          \* the value returned by the last _fetch_stream_url, if any
    e_out,          \* the value returned by extract_stream_url
    \* the stream keys as JSON text, called directly
    k_db,           \* store keys "stream:<channel>": channel -> JSON text
    k_call,         \* history: the last call, its arguments and its return
    k_src,          \* history: per channel, the dict whose JSON text the key holds, if any
    \* verify_and_refresh_streams
    f_channels,     \* the input list: the name of each channel
    f_main,         \* "idle", "loop", "returned"
    f_call,         \* per item: "notstarted", "running", or its get_stream_url result
    f_results,      \* local results
    \* _validate_channels_task
    t_pc,           \* "idle", "validating", "update", "finished"
    validation_tasks, \* the module's dict validation_tasks: task id -> task
    \* concurrent extract_stream_url calls on one YtdlpService
    g_pc,           \* per call: "idle", "waiting", "try", "sleep", "done"
    g_attempt,      \* per call: the loop variable attempt of its retry_with_backoff
    g_out,          \* per call: "pending", or the value returned: "record", "None"
    \* _sync_fetch_stream_url and _is_expired called directly, under one clock
    n_now,          \* datetime.utcnow(), in ticks
    n_call          \* history: the last call, its input, its clock readings, its return

resolverVars == <<stream, lock, pc, chan, use_cache, lock_acquired, result,
                  semaphore, extractRes, released, quiet, allFailed, stream0,
                  hist>>
lockVars == <<lastCall, holders, timed_out>>
retryVars == <<r_cfg, r_pc, r_attempt, r_calls, r_errs, r_delays, r_out>>
validatorVars == <<v_channels, v_shared, v_callback, v_main, v_task, v_status,
                   v_doneq, v_sem, y_sem, v_results, v_validated, v_reported,
                   v_cause, x_pc>>
batchVars == <<b_channels, b_timeout, b_main, b_task, b_out, b_timedout>>
extractorVars == <<e_pc, e_tool, e_val, e_out>>
kvVars == <<k_db, k_call, k_src>>
refreshVars == <<f_channels, f_main, f_call, f_results>>
taskVars == <<t_pc, validation_tasks>>
gateVars == <<g_pc, g_attempt, g_out>>
recordVars == <<n_now, n_call>>

vars == <<resolverVars, lockVars, retryVars, validatorVars, batchVars,
          extractorVars, kvVars, refreshVars, taskVars, gateVars, recordVars>>

\* ------------------------------------------------------------- the store
\* redis SET / SETEX key value
Put(f, k, v) == [x \in DOMAIN f \cup {k} |-> IF x = k THEN v ELSE f[x]]
\* redis DEL key
Del(f, k) == [x \in DOMAIN f \ {k} |-> f[x]]

\* An Optional value is a sequence of length at most one; None is <<>>.
None == <<>>
Some(x) == <<x>>

\* redis SET key value NX without the NX: the key is always written.
RedisSetNX_Overwrite(f, k, v) == [db |-> Put(f, k, v), reply |-> Some(TRUE)]
\* redis SET key value NX EX: writes only an absent key; the reply is None
\* when nothing was written.
RedisSetNX(f, k, v) ==
    IF k \in DOMAIN f
    THEN [db |-> f, reply |-> None]
    ELSE [db |-> Put(f, k, v), reply |-> Some(TRUE)]

\* The record stored before the run began carries url 0; the record of the
\* extraction made by caller p carries url p.
OldUrl == 0
Record(u, s) == [url |-> u, stale |-> s]
Records == {Record(OldUrl, s) : s \in BOOLEAN}

\* ----------------------------------------------------------- CacheService
\* get_stream_url: the entry, or None when the key is absent or the read raised.
get_stream_url(ok, c) == IF ok /\ c \in DOMAIN stream THEN Some(stream[c]) ELSE None

\* set_stream_url: SETEX stream:<channel>; False when the write raised.
set_stream_url(ok, c, rec) ==
    IF ok THEN [db |-> Put(stream, c, rec), ret |-> TRUE]
          ELSE [db |-> stream, ret |-> FALSE]

\* invalidate reporting True whether or not the delete raised.
invalidate_AlwaysTrue(ok, c) ==
    IF ok THEN [db |-> Del(stream, c), ret |-> TRUE]
          ELSE [db |-> stream, ret |-> TRUE]
\* invalidate: DEL stream:<channel>; False when the delete raised.
invalidate(ok, c) ==
    IF ok THEN [db |-> Del(stream, c), ret |-> TRUE]
          ELSE [db |-> stream, ret |-> FALSE]

\* acquire_lock: SET lock:<channel> "1" NX EX timeout; True when the reply is
\* not None, False when the key exists or the call raised.  The value kept
\* for the key names the caller that created it.
acquire_lock(ok, c, p) ==
    IF ok THEN LET r == RedisSetNX(lock, c, p) IN [db |-> r.db, ret |-> r.reply # None]
          ELSE [db |-> lock, ret |-> FALSE]

\* release_lock reporting how many keys DEL removed: False on an absent key.
release_lock_CountsDeleted(ok, c) ==
    IF ok THEN [db |-> Del(lock, c), ret |-> c \in DOMAIN lock]
          ELSE [db |-> lock, ret |-> FALSE]
\* release_lock deleting every lock key (DEL lock:*).
release_lock_All(ok, c) ==
    IF ok THEN [db |-> <<>>, ret |-> TRUE]
          ELSE [db |-> lock, ret |-> FALSE]
\* release_lock: DEL lock:<channel>, whoever created the key.
release_lock(ok, c) ==
    IF ok THEN [db |-> Del(lock, c), ret |-> TRUE]
          ELSE [db |-> lock, ret |-> FALSE]

\* StreamResolverService._is_expired: utcnow() >= expires_at.
is_expired(rec) == rec.stale

\* Values of result.
Pending == [kind |-> "pending"]
Absent == [kind |-> "None"]
Url(rec, src) == [kind |-> "url", url |-> rec.url, from |-> src, stale |-> rec.stale]

\* ------------------------------------------------- parts that are not running
\* The history of a call that has not started: what its first cache read
\* found (seen: kind "none", "miss", "fresh" or "stale", and the url of the
\* record found), what its read after the sleep found (recheck: "none",
\* "miss", "hit"), and how often it called invalidate, acquire_lock,
\* asyncio.sleep and extract_stream_url.
NoHist == [seen |-> [kind |-> "none"], recheck |-> "none", invalidations |-> 0,
           locks |-> 0, sleeps |-> 0, extracts |-> 0]

ResolverIdle ==
    /\ stream = <<>>
    /\ stream0 = <<>>
    /\ pc = [p \in Callers |-> "idle"]
    /\ chan = [p \in Callers |-> "c1"]
    /\ use_cache = [p \in Callers |-> TRUE]
    /\ lock_acquired = [p \in Callers |-> FALSE]
    /\ result = [p \in Callers |-> Pending]
    /\ extractRes = [p \in Callers |-> "notcalled"]
    /\ released = [p \in Callers |-> "no"]
    /\ quiet = TRUE
    /\ allFailed = TRUE
    /\ hist = [p \in Callers |-> NoHist]

LockIdle ==
    /\ lastCall = [op |-> "none"]
    /\ holders = [c \in Channels |-> {}]
    /\ timed_out = [c \in Channels |-> {}]

RetryIdle ==
    /\ r_cfg = [max_retries |-> 0, initial_delay |-> 1, max_delay |-> 1,
                exponential_base |-> 1, jitter |-> FALSE]
    /\ r_pc = "idle"
    /\ r_attempt = 0
    /\ r_calls = 0
    /\ r_errs = <<>>
    /\ r_delays = <<>>
    /\ r_out = [kind |-> "pending"]

ValidatorIdle ==
    /\ v_channels = <<>>
    /\ v_shared = TRUE
    /\ v_callback = FALSE
    /\ v_main = "idle"
    /\ v_task = <<>>
    /\ v_status = <<>>
    /\ v_doneq = <<>>
    /\ v_sem = VALIDATOR_CONCURRENCY
    /\ y_sem = MAX_CONCURRENT_YTDLP_REQUESTS
    /\ v_results = <<>>
    /\ v_validated = 0
    /\ v_reported = <<>>
    /\ v_cause = <<>>
    /\ x_pc = [p \in Callers |-> "idle"]

BatchIdle ==
    /\ b_channels = 0
    /\ b_timeout = FALSE
    /\ b_main = "idle"
    /\ b_task = <<>>
    /\ b_out = <<>>
    /\ b_timedout = FALSE

KvIdle ==
    /\ k_db = <<>>
    /\ k_call = [op |-> "none"]
    /\ k_src = [c \in Channels |-> None]

RefreshIdle ==
    /\ f_channels = <<>>
    /\ f_main = "idle"
    /\ f_call = <<>>
    /\ f_results = <<>>

TaskIdle ==
    /\ t_pc = "idle"
    /\ validation_tasks = <<>>

GateIdle ==
    /\ g_pc = <<>>
    /\ g_attempt = <<>>
    /\ g_out = <<>>

RecordIdle ==
    /\ n_now = 0
    /\ n_call = <<>>

ExtractorIdle ==
    /\ e_pc = "idle"
    /\ e_tool = <<>>
    /\ e_val = None
    /\ e_out = None

\* ------------------------------------------------------------------ Init
\* The store outlives the process: the called channel may hold a record
\* written before the run, fresh or already past its expires_at.
Init ==
    /\ stream \in UNION {[D -> Records] : D \in SUBSET CalledChannels}
    /\ stream0 = stream
    /\ lock = <<>>
    /\ pc = [p \in Callers |-> "idle"]
    /\ chan = [p \in Callers |-> "c1"]
    /\ use_cache = [p \in Callers |-> TRUE]
    /\ lock_acquired = [p \in Callers |-> FALSE]
    /\ result = [p \in Callers |-> Pending]
    /\ semaphore = MAX_CONCURRENT_YTDLP_REQUESTS
    /\ extractRes = [p \in Callers |-> "notcalled"]
    /\ released = [p \in Callers |-> "no"]
    /\ quiet = TRUE
    /\ allFailed = TRUE
    /\ hist = [p \in Callers |-> NoHist]
    /\ LockIdle /\ RetryIdle /\ ValidatorIdle /\ BatchIdle /\ KvIdle /\ RefreshIdle /\ TaskIdle /\ GateIdle /\ RecordIdle /\ ExtractorIdle

\* Every store operation records whether it reached the store.
StoreOp(ok) ==
    /\ quiet' = (quiet /\ ok)
    /\ allFailed' = (allFailed /\ ~ok)

\* ------------------------------------------------- get_stream_url, by step
\* A caller invokes get_stream_url(channel_url, channel_name, use_cache).
StartOn(p, c) ==
    /\ pc[p] = "idle"
    /\ \E uc \in BOOLEAN :
        /\ chan' = [chan EXCEPT ![p] = c]
        /\ use_cache' = [use_cache EXCEPT ![p] = uc]
        /\ pc' = [pc EXCEPT ![p] = IF uc THEN "get" ELSE "lock"]
    /\ UNCHANGED <<stream, lock, lock_acquired, result, semaphore, extractRes,
                   released, quiet, allFailed, stream0, hist>>
    /\ UNCHANGED <<lockVars, retryVars, validatorVars, batchVars, kvVars, refreshVars, taskVars, gateVars, recordVars, extractorVars>>

\* In Spec every caller asks for the same channel.
Start(p) == \E c \in CalledChannels : StartOn(p, c)

\* Lines 47-54 without the return: a hit goes on to the lock like a miss.
CacheGet_HitFallsThrough(p) ==
    /\ pc[p] = "get"
    /\ \E ok \in BOOLEAN :
        LET cached == get_stream_url(ok, chan[p]) IN
        /\ StoreOp(ok)
        /\ IF cached # None /\ ~is_expired(cached[1])
           THEN /\ result' = [result EXCEPT ![p] = Url(cached[1], "cache")]
                /\ pc' = [pc EXCEPT ![p] = "lock"]
           ELSE /\ result' = result
                /\ pc' = [pc EXCEPT ![p] =
                            IF cached # None THEN "invalidate" ELSE "lock"]
        /\ hist' = [hist EXCEPT ![p].seen =
                        IF cached = None THEN [kind |-> "miss"]
                        ELSE [kind |-> IF is_expired(cached[1]) THEN "stale" ELSE "fresh",
                              url |-> cached[1].url]]
    /\ UNCHANGED <<stream, lock, chan, use_cache, lock_acquired, semaphore,
                   extractRes, released, stream0>>
    /\ UNCHANGED <<lockVars, retryVars, validatorVars, batchVars, kvVars, refreshVars, taskVars, gateVars, recordVars, extractorVars>>

\* Lines 47-59: the cache read, the expiry check and the cache-hit return.
CacheGet(p) ==
    /\ pc[p] = "get"
    /\ \E ok \in BOOLEAN :
        LET cached == get_stream_url(ok, chan[p]) IN
        /\ StoreOp(ok)
        /\ IF cached # None /\ ~is_expired(cached[1])
           THEN /\ result' = [result EXCEPT ![p] = Url(cached[1], "cache")]
                /\ pc' = [pc EXCEPT ![p] = "done"]
           ELSE /\ result' = result
                /\ pc' = [pc EXCEPT ![p] =
                            IF cached # None THEN "invalidate" ELSE "lock"]
        /\ hist' = [hist EXCEPT ![p].seen =
                        IF cached = None THEN [kind |-> "miss"]
                        ELSE [kind |-> IF is_expired(cached[1]) THEN "stale" ELSE "fresh",
                              url |-> cached[1].url]]
    /\ UNCHANGED <<stream, lock, chan, use_cache, lock_acquired, semaphore,
                   extractRes, released, stream0>>
    /\ UNCHANGED <<lockVars, retryVars, validatorVars, batchVars, kvVars, refreshVars, taskVars, gateVars, recordVars, extractorVars>>

\* Line 57 without the delete: the expired entry is left in the store.
Invalidate_Skip(p) ==
    /\ pc[p] = "invalidate"
    /\ pc' = [pc EXCEPT ![p] = "lock"]
    /\ hist' = [hist EXCEPT ![p].invalidations = @ + 1]
    /\ UNCHANGED <<stream, lock, chan, use_cache, lock_acquired, result,
                   semaphore, extractRes, released, quiet, allFailed, stream0>>
    /\ UNCHANGED <<lockVars, retryVars, validatorVars, batchVars, kvVars, refreshVars, taskVars, gateVars, recordVars, extractorVars>>

\* Line 57: cache_service.invalidate of the expired entry.
Invalidate(p) ==
    /\ pc[p] = "invalidate"
    /\ \E ok \in BOOLEAN :
        /\ StoreOp(ok)
        /\ stream' = invalidate(ok, chan[p]).db
    /\ pc' = [pc EXCEPT ![p] = "lock"]
    /\ hist' = [hist EXCEPT ![p].invalidations = @ + 1]
    /\ UNCHANGED <<lock, chan, use_cache, lock_acquired, result, semaphore,
                   extractRes, released, stream0>>
    /\ UNCHANGED <<lockVars, retryVars, validatorVars, batchVars, kvVars, refreshVars, taskVars, gateVars, recordVars, extractorVars>>

\* Line 63: lock_acquired = await cache_service.acquire_lock(channel_name).
AcquireLock(p) ==
    /\ pc[p] = "lock"
    /\ \E ok \in BOOLEAN :
        LET r == acquire_lock(ok, chan[p], p) IN
        /\ StoreOp(ok)
        /\ lock' = r.db
        /\ lock_acquired' = [lock_acquired EXCEPT ![p] = r.ret]
        /\ pc' = [pc EXCEPT ![p] = IF r.ret THEN "extract" ELSE "sleep"]
    /\ hist' = [hist EXCEPT ![p].locks = @ + 1]
    /\ UNCHANGED <<stream, chan, use_cache, result, semaphore, extractRes,
                   released, stream0>>
    /\ UNCHANGED <<lockVars, retryVars, validatorVars, batchVars, kvVars, refreshVars, taskVars, gateVars, recordVars, extractorVars>>

\* Lines 65-73 with "return None" in place of falling through to the extraction.
SleepThenGet_GiveUp(p) ==
    /\ pc[p] = "sleep"
    /\ \E ok \in BOOLEAN :
        LET cached == get_stream_url(ok, chan[p]) IN
        /\ StoreOp(ok)
        /\ result' = [result EXCEPT ![p] =
                        IF cached # None THEN Url(cached[1], "cache") ELSE Absent]
        /\ hist' = [hist EXCEPT ![p].sleeps = @ + 1,
                                 ![p].recheck = IF cached # None THEN "hit" ELSE "miss"]
    /\ pc' = [pc EXCEPT ![p] = "done"]
    /\ UNCHANGED <<stream, lock, chan, use_cache, lock_acquired, semaphore,
                   extractRes, released, stream0>>
    /\ UNCHANGED <<lockVars, retryVars, validatorVars, batchVars, kvVars, refreshVars, taskVars, gateVars, recordVars, extractorVars>>

\* Lines 65-73 with a loop: with no entry after the sleep, try the lock again.
SleepThenGet_Loop(p) ==
    /\ pc[p] = "sleep"
    /\ hist[p].sleeps < 2
    /\ \E ok \in BOOLEAN :
        LET cached == get_stream_url(ok, chan[p]) IN
        /\ StoreOp(ok)
        /\ IF cached # None
           THEN /\ result' = [result EXCEPT ![p] = Url(cached[1], "cache")]
                /\ pc' = [pc EXCEPT ![p] = "done"]
           ELSE /\ result' = result
                /\ pc' = [pc EXCEPT ![p] = "lock"]
        /\ hist' = [hist EXCEPT ![p].sleeps = @ + 1,
                                 ![p].recheck = IF cached # None THEN "hit" ELSE "miss"]
    /\ UNCHANGED <<stream, lock, chan, use_cache, lock_acquired, semaphore,
                   extractRes, released, stream0>>
    /\ UNCHANGED <<lockVars, retryVars, validatorVars, batchVars, kvVars, refreshVars, taskVars, gateVars, recordVars, extractorVars>>

\* Lines 65-73 moved inside the try of line 75: the return of the entry found
\* after the sleep passes through the finally clause and its release_lock.
SleepThenGet_HitInsideTry(p) ==
    /\ pc[p] = "sleep"
    /\ \E ok \in BOOLEAN :
        LET cached == get_stream_url(ok, chan[p]) IN
        /\ StoreOp(ok)
        /\ IF cached # None
           THEN /\ result' = [result EXCEPT ![p] = Url(cached[1], "cache")]
                /\ pc' = [pc EXCEPT ![p] = "release"]
           ELSE /\ result' = result
                /\ pc' = [pc EXCEPT ![p] = "extract"]
        /\ hist' = [hist EXCEPT ![p].sleeps = @ + 1,
                                 ![p].recheck = IF cached # None THEN "hit" ELSE "miss"]
    /\ UNCHANGED <<stream, lock, chan, use_cache, lock_acquired, semaphore,
                   extractRes, released, stream0>>
    /\ UNCHANGED <<lockVars, retryVars, validatorVars, batchVars, kvVars, refreshVars, taskVars, gateVars, recordVars, extractorVars>>

\* Lines 65-73: the lock was not acquired: sleep(2), read the cache again and
\* return the entry found, whatever its expires_at; with no entry, go on to
\* the extraction.
SleepThenGet(p) ==
    /\ pc[p] = "sleep"
    /\ \E ok \in BOOLEAN :
        LET cached == get_stream_url(ok, chan[p]) IN
        /\ StoreOp(ok)
        /\ IF cached # None
           THEN /\ result' = [result EXCEPT ![p] = Url(cached[1], "cache")]
                /\ pc' = [pc EXCEPT ![p] = "done"]
           ELSE /\ result' = result
                /\ pc' = [pc EXCEPT ![p] = "extract"]
        /\ hist' = [hist EXCEPT ![p].sleeps = @ + 1,
                                 ![p].recheck = IF cached # None THEN "hit" ELSE "miss"]
    /\ UNCHANGED <<stream, lock, chan, use_cache, lock_acquired, semaphore,
                   extractRes, released, stream0>>
    /\ UNCHANGED <<lockVars, retryVars, validatorVars, batchVars, kvVars, refreshVars, taskVars, gateVars, recordVars, extractorVars>>

\* Line 77 and ytdlp_service line 56: the call of extract_stream_url passes
\* the admission gate (async with self.semaphore).
ExtractStart(p) ==
    /\ pc[p] = "extract"
    /\ semaphore > 0
    /\ semaphore' = semaphore - 1
    /\ extractRes' = [extractRes EXCEPT ![p] = "running"]
    /\ pc' = [pc EXCEPT ![p] = "running"]
    /\ hist' = [hist EXCEPT ![p].extracts = @ + 1]
    /\ UNCHANGED <<stream, lock, chan, use_cache, lock_acquired, result,
                   released, quiet, allFailed, stream0>>
    /\ UNCHANGED <<lockVars, retryVars, validatorVars, batchVars, kvVars, refreshVars, taskVars, gateVars, recordVars, extractorVars>>

\* ytdlp_service lines 60-68 and resolver line 82: extract_stream_url returns
\* a record; the gate slot is freed.
ExtractOk(p) ==
    /\ pc[p] = "running"
    /\ semaphore' = semaphore + 1
    /\ extractRes' = [extractRes EXCEPT ![p] = "ok"]
    /\ pc' = [pc EXCEPT ![p] = "set"]
    /\ UNCHANGED <<stream, lock, chan, use_cache, lock_acquired, result,
                   released, quiet, allFailed, stream0, hist>>
    /\ UNCHANGED <<lockVars, retryVars, validatorVars, batchVars, kvVars, refreshVars, taskVars, gateVars, recordVars, extractorVars>>

\* The failure path with the return placed outside the try / finally.
ExtractFail_NoRelease(p) ==
    /\ pc[p] = "running"
    /\ semaphore' = semaphore + 1
    /\ extractRes' = [extractRes EXCEPT ![p] = "fail"]
    /\ result' = [result EXCEPT ![p] = Absent]
    /\ pc' = [pc EXCEPT ![p] = "done"]
    /\ UNCHANGED <<stream, lock, chan, use_cache, lock_acquired, released,
                   quiet, allFailed, stream0, hist>>
    /\ UNCHANGED <<lockVars, retryVars, validatorVars, batchVars, kvVars, refreshVars, taskVars, gateVars, recordVars, extractorVars>>

\* The failure path with the error passed on to the caller.
ExtractFail_Propagate(p) ==
    /\ pc[p] = "running"
    /\ semaphore' = semaphore + 1
    /\ extractRes' = [extractRes EXCEPT ![p] = "fail"]
    /\ result' = [result EXCEPT ![p] = [kind |-> "raised"]]
    /\ pc' = [pc EXCEPT ![p] = "release"]
    /\ UNCHANGED <<stream, lock, chan, use_cache, lock_acquired, released,
                   quiet, allFailed, stream0, hist>>
    /\ UNCHANGED <<lockVars, retryVars, validatorVars, batchVars, kvVars, refreshVars, taskVars, gateVars, recordVars, extractorVars>>

\* The failure path with negative caching: a record is stored for the channel
\* although extract_stream_url returned None.
ExtractFail_NegativeCache(p) ==
    /\ pc[p] = "running"
    /\ semaphore' = semaphore + 1
    /\ extractRes' = [extractRes EXCEPT ![p] = "fail"]
    /\ result' = [result EXCEPT ![p] = Absent]
    /\ stream' = Put(stream, chan[p], Record(p, FALSE))
    /\ pc' = [pc EXCEPT ![p] = "release"]
    /\ UNCHANGED <<lock, chan, use_cache, lock_acquired, released,
                   quiet, allFailed, stream0, hist>>
    /\ UNCHANGED <<lockVars, retryVars, validatorVars, batchVars, kvVars, refreshVars, taskVars, gateVars, recordVars, extractorVars>>

\* ytdlp_service lines 69-75 and resolver lines 94-105: extract_stream_url
\* returns None once the tool has failed on every attempt; the gate slot is
\* freed and get_stream_url returns None, through the finally clause.
ExtractFail(p) ==
    /\ pc[p] = "running"
    /\ semaphore' = semaphore + 1
    /\ extractRes' = [extractRes EXCEPT ![p] = "fail"]
    /\ result' = [result EXCEPT ![p] = Absent]
    /\ pc' = [pc EXCEPT ![p] = "release"]
    /\ UNCHANGED <<stream, lock, chan, use_cache, lock_acquired, released,
                   quiet, allFailed, stream0, hist>>
    /\ UNCHANGED <<lockVars, retryVars, validatorVars, batchVars, kvVars, refreshVars, taskVars, gateVars, recordVars, extractorVars>>

\* Lines 84-93 without line 84: the record is returned but not cached.
CacheSet_NoWrite(p) ==
    /\ pc[p] = "set"
    /\ result' = [result EXCEPT ![p] = Url(Record(p, FALSE), "extract")]
    /\ pc' = [pc EXCEPT ![p] = "release"]
    /\ UNCHANGED <<stream, lock, chan, use_cache, lock_acquired, semaphore,
                   extractRes, released, quiet, allFailed, stream0, hist>>
    /\ UNCHANGED <<lockVars, retryVars, validatorVars, batchVars, kvVars, refreshVars, taskVars, gateVars, recordVars, extractorVars>>

\* Lines 84-93 with release_lock in the place of set_stream_url: the lock key
\* is deleted before the record is cached.
CacheSet_ReleaseFirst(p) ==
    /\ pc[p] = "set"
    /\ \E ok \in BOOLEAN :
        LET r == release_lock(ok, chan[p]) IN
        /\ StoreOp(ok)
        /\ lock' = r.db
        /\ released' = [released EXCEPT ![p] = IF r.ret THEN "ok" ELSE "failed"]
    /\ result' = [result EXCEPT ![p] = Url(Record(p, FALSE), "extract")]
    /\ pc' = [pc EXCEPT ![p] = "release"]
    /\ UNCHANGED <<stream, chan, use_cache, lock_acquired, semaphore, extractRes,
                   stream0, hist>>
    /\ UNCHANGED <<lockVars, retryVars, validatorVars, batchVars, kvVars, refreshVars, taskVars, gateVars, recordVars, extractorVars>>

\* Lines 84-93: cache_service.set_stream_url, then return stream_data['url'].
CacheSet(p) ==
    /\ pc[p] = "set"
    /\ \E ok \in BOOLEAN :
        /\ StoreOp(ok)
        /\ stream' = set_stream_url(ok, chan[p], Record(p, FALSE)).db
    /\ result' = [result EXCEPT ![p] = Url(Record(p, FALSE), "extract")]
    /\ pc' = [pc EXCEPT ![p] = "release"]
    /\ UNCHANGED <<lock, chan, use_cache, lock_acquired, semaphore, extractRes,
                   released, stream0, hist>>
    /\ UNCHANGED <<lockVars, retryVars, validatorVars, batchVars, kvVars, refreshVars, taskVars, gateVars, recordVars, extractorVars>>

\* Lines 107-109: finally: await cache_service.release_lock(channel_name).
ReleaseLock(p) ==
    /\ pc[p] = "release"
    /\ \E ok \in BOOLEAN :
        LET r == release_lock(ok, chan[p]) IN
        /\ StoreOp(ok)
        /\ lock' = r.db
        /\ released' = [released EXCEPT ![p] = IF r.ret THEN "ok" ELSE "failed"]
    /\ pc' = [pc EXCEPT ![p] = "done"]
    /\ UNCHANGED <<stream, chan, use_cache, lock_acquired, result, semaphore,
                   extractRes, stream0, hist>>
    /\ UNCHANGED <<lockVars, retryVars, validatorVars, batchVars, kvVars, refreshVars, taskVars, gateVars, recordVars, extractorVars>>

\* ------------------------------------------------------- the passing of time
\* A lock key written without expiry: time passes and the key stays.
LockExpire_Never(c) ==
    /\ c \in DOMAIN lock
    /\ UNCHANGED vars

\* The lock key's expiry (ex=timeout, 30 s) elapses.
LockExpire(c) ==
    /\ c \in DOMAIN lock
    /\ lock' = Del(lock, c)
    /\ quiet' = FALSE
    /\ holders' = [holders EXCEPT ![c] = {}]
    /\ timed_out' = [timed_out EXCEPT ![c] = holders[c]]
    /\ UNCHANGED <<stream, pc, chan, use_cache, lock_acquired, result, semaphore,
                   extractRes, released, allFailed, stream0, hist>>
    /\ UNCHANGED <<lastCall, retryVars, validatorVars, batchVars, kvVars, refreshVars, taskVars, gateVars, recordVars, extractorVars>>

\* The stream key's TTL (setex, CACHE_TTL) elapses.
TtlLapse(c) ==
    /\ c \in DOMAIN stream
    /\ stream' = Del(stream, c)
    /\ quiet' = FALSE
    /\ UNCHANGED <<lock, pc, chan, use_cache, lock_acquired, result, semaphore,
                   extractRes, released, allFailed, stream0, hist>>
    /\ UNCHANGED <<lockVars, retryVars, validatorVars, batchVars, kvVars, refreshVars, taskVars, gateVars, recordVars, extractorVars>>

\* The clock reaches the record's expires_at (fetch time + 1 hour).
RecordExpire(c) ==
    /\ c \in DOMAIN stream
    /\ ~stream[c].stale
    /\ stream' = [stream EXCEPT ![c].stale = TRUE]
    /\ UNCHANGED <<lock, pc, chan, use_cache, lock_acquired, result, semaphore,
                   extractRes, released, quiet, allFailed, stream0, hist>>
    /\ UNCHANGED <<lockVars, retryVars, validatorVars, batchVars, kvVars, refreshVars, taskVars, gateVars, recordVars, extractorVars>>

Next ==
    \/ \E p \in Callers :
        \/ Start(p)
        \/ CacheGet(p)
        \/ Invalidate(p)
        \/ AcquireLock(p)
        \/ SleepThenGet(p)
        \/ ExtractStart(p)
        \/ ExtractOk(p)
        \/ ExtractFail(p)
        \/ CacheSet(p)
        \/ ReleaseLock(p)
    \/ \E c \in Channels :
        \/ LockExpire(c)
        \/ TtlLapse(c)
        \/ RecordExpire(c)

Spec == Init /\ [][Next]_vars

\* The steps of one call after its start.  The event loop runs every
\* coroutine that is ready, so a call that can take a step takes it.
CallerStep(p) ==
    \/ CacheGet(p)
    \/ Invalidate(p)
    \/ AcquireLock(p)
    \/ SleepThenGet(p)
    \/ ExtractStart(p)
    \/ ExtractOk(p)
    \/ ExtractFail(p)
    \/ CacheSet(p)
    \/ ReleaseLock(p)

\* The call watched for progress; the other calls may stop at any step, a
\* lock holder included, and the lock key need never expire.
FairCaller == 1

SpecLive == Init /\ [][Next]_vars /\ WF_vars(CallerStep(FairCaller))

\* ============================================================== SpecLock
\* Callers invoke acquire_lock and release_lock directly on any key, in any
\* order, as tests/test_cache_service.py::test_distributed_lock does.
InitLock ==
    /\ ResolverIdle
    /\ lock = <<>>
    /\ semaphore = MAX_CONCURRENT_YTDLP_REQUESTS
    /\ LockIdle /\ RetryIdle /\ ValidatorIdle /\ BatchIdle /\ KvIdle /\ RefreshIdle /\ TaskIdle /\ GateIdle /\ RecordIdle /\ ExtractorIdle

\* cache_service.acquire_lock(channel), lines 142-164.
DirectAcquire(p, c) ==
    /\ \E ok \in BOOLEAN :
        LET r == acquire_lock(ok, c, p) IN
        /\ lock' = r.db
        /\ lastCall' = [op |-> "acquire", key |-> c, by |-> p, ok |-> ok,
                        present |-> c \in DOMAIN lock, ret |-> r.ret]
        /\ holders' = IF r.ret THEN [holders EXCEPT ![c] = @ \cup {p}] ELSE holders
        /\ UNCHANGED timed_out
        /\ quiet' = (quiet /\ ok)
    /\ UNCHANGED <<stream, pc, chan, use_cache, lock_acquired, result, semaphore,
                   extractRes, released, allFailed, stream0, hist>>
    /\ UNCHANGED <<retryVars, validatorVars, batchVars, kvVars, refreshVars, taskVars, gateVars, recordVars, extractorVars>>

\* cache_service.release_lock(channel), lines 166-174.
DirectRelease(p, c) ==
    /\ \E ok \in BOOLEAN :
        LET r == release_lock(ok, c) IN
        /\ lock' = r.db
        /\ lastCall' = [op |-> "release", key |-> c, by |-> p, ok |-> ok,
                        present |-> c \in DOMAIN lock, ret |-> r.ret]
        /\ holders' = IF c \notin DOMAIN r.db THEN [holders EXCEPT ![c] = {}] ELSE holders
        /\ timed_out' = IF c \in DOMAIN lock /\ c \notin DOMAIN r.db
                        THEN [timed_out EXCEPT ![c] = {}] ELSE timed_out
        /\ quiet' = (quiet /\ ok)
    /\ UNCHANGED <<stream, pc, chan, use_cache, lock_acquired, result, semaphore,
                   extractRes, released, allFailed, stream0, hist>>
    /\ UNCHANGED <<retryVars, validatorVars, batchVars, kvVars, refreshVars, taskVars, gateVars, recordVars, extractorVars>>

NextLock ==
    \/ \E p \in Callers, c \in Channels :
        \/ DirectAcquire(p, c)
        \/ DirectRelease(p, c)
    \/ \E c \in Channels : LockExpire(c)

SpecLock == InitLock /\ [][NextLock]_vars

\* SpecLock with time passing: the store removes a key written with ex=timeout
\* once the timeout has elapsed, whatever the callers do.
SpecLockLive ==
    InitLock /\ [][NextLock]_vars /\ \A c \in Channels : WF_vars(LockExpire(c))

\* ============================================================= SpecCache
\* Every CacheService method called directly on the key of the resolver's
\* channel, each call reaching the store or not, while one get_stream_url
\* call of the resolver runs.
CachedChannels(ok) == IF ok THEN DOMAIN stream ELSE {}

InitCache ==
    /\ stream \in UNION {[D -> Records] : D \in SUBSET CalledChannels}
    /\ stream0 = stream
    /\ lock = <<>>
    /\ pc = [p \in Callers |-> "idle"]
    /\ chan = [p \in Callers |-> "c1"]
    /\ use_cache = [p \in Callers |-> TRUE]
    /\ lock_acquired = [p \in Callers |-> FALSE]
    /\ result = [p \in Callers |-> Pending]
    /\ semaphore = MAX_CONCURRENT_YTDLP_REQUESTS
    /\ extractRes = [p \in Callers |-> "notcalled"]
    /\ released = [p \in Callers |-> "no"]
    /\ quiet = TRUE
    /\ allFailed = TRUE
    /\ hist = [p \in Callers |-> NoHist]
    /\ LockIdle /\ RetryIdle /\ ValidatorIdle /\ BatchIdle /\ KvIdle /\ RefreshIdle /\ TaskIdle /\ GateIdle /\ RecordIdle /\ ExtractorIdle

\* cache_service.get_stream_url(channel), lines 36-58.
DirectGet(c) ==
    /\ \E ok \in BOOLEAN :
        /\ lastCall' = [op |-> "get", key |-> c, ok |-> ok,
                        present |-> c \in DOMAIN stream,
                        ret |-> get_stream_url(ok, c)]
        /\ quiet' = (quiet /\ ok)
    /\ UNCHANGED <<stream, lock, pc, chan, use_cache, lock_acquired, result,
                   semaphore, extractRes, released, allFailed, stream0, hist>>
    /\ UNCHANGED <<holders, timed_out, retryVars, validatorVars, batchVars, kvVars, refreshVars, taskVars, gateVars, recordVars, extractorVars>>

\* cache_service.set_stream_url(channel, stream_data), lines 60-88.
DirectSet(c) ==
    /\ \E ok \in BOOLEAN, rec \in Records :
        LET r == set_stream_url(ok, c, rec) IN
        /\ stream' = r.db
        /\ lastCall' = [op |-> "set", key |-> c, ok |-> ok,
                        present |-> c \in DOMAIN stream, ret |-> r.ret]
        /\ quiet' = (quiet /\ ok)
    /\ UNCHANGED <<lock, pc, chan, use_cache, lock_acquired, result,
                   semaphore, extractRes, released, allFailed, stream0, hist>>
    /\ UNCHANGED <<holders, timed_out, retryVars, validatorVars, batchVars, kvVars, refreshVars, taskVars, gateVars, recordVars, extractorVars>>

\* cache_service.invalidate(channel), lines 121-130.
DirectInvalidate(c) ==
    /\ \E ok \in BOOLEAN :
        LET r == invalidate(ok, c) IN
        /\ stream' = r.db
        /\ lastCall' = [op |-> "invalidate", key |-> c, ok |-> ok,
                        present |-> c \in DOMAIN stream, ret |-> r.ret]
        /\ quiet' = (quiet /\ ok)
    /\ UNCHANGED <<lock, pc, chan, use_cache, lock_acquired, result,
                   semaphore, extractRes, released, allFailed, stream0, hist>>
    /\ UNCHANGED <<holders, timed_out, retryVars, validatorVars, batchVars, kvVars, refreshVars, taskVars, gateVars, recordVars, extractorVars>>

\* cache_service.get_all_cached_channels(), lines 132-140.
DirectList ==
    /\ \E ok \in BOOLEAN :
        /\ lastCall' = [op |-> "list", ok |-> ok, ret |-> CachedChannels(ok)]
        /\ quiet' = (quiet /\ ok)
    /\ UNCHANGED <<stream, lock, pc, chan, use_cache, lock_acquired, result,
                   semaphore, extractRes, released, allFailed, stream0, hist>>
    /\ UNCHANGED <<holders, timed_out, retryVars, validatorVars, batchVars, kvVars, refreshVars, taskVars, gateVars, recordVars, extractorVars>>

NextCache ==
    \/ \E c \in CalledChannels :
        \/ DirectGet(c)
        \/ DirectSet(c)
        \/ DirectInvalidate(c)
    \/ DirectList
    \/ \E p \in Callers \ {FairCaller}, c \in CalledChannels :
        \/ DirectAcquire(p, c)
        \/ DirectRelease(p, c)
    \/ Start(FairCaller)
    \/ CallerStep(FairCaller)

SpecCache == InitCache /\ [][NextCache]_vars

\* ============================================================== SpecIndep
\* get_stream_url calls for different channels side by side: one caller asks
\* for "c1", the others for "c2", and the store may hold entries of both
\* channels from before the run.
ChannelOf(p) == IF p = FairCaller THEN "c1" ELSE "c2"

InitIndep ==
    /\ stream \in UNION {[D -> Records] : D \in SUBSET Channels}
    /\ stream0 = stream
    /\ lock = <<>>
    /\ pc = [p \in Callers |-> "idle"]
    /\ chan = [p \in Callers |-> ChannelOf(p)]
    /\ use_cache = [p \in Callers |-> TRUE]
    /\ lock_acquired = [p \in Callers |-> FALSE]
    /\ result = [p \in Callers |-> Pending]
    /\ semaphore = MAX_CONCURRENT_YTDLP_REQUESTS
    /\ extractRes = [p \in Callers |-> "notcalled"]
    /\ released = [p \in Callers |-> "no"]
    /\ quiet = TRUE
    /\ allFailed = TRUE
    /\ hist = [p \in Callers |-> NoHist]
    /\ LockIdle /\ RetryIdle /\ ValidatorIdle /\ BatchIdle /\ KvIdle /\ RefreshIdle /\ TaskIdle /\ GateIdle /\ RecordIdle /\ ExtractorIdle

NextIndep ==
    \/ \E p \in Callers :
        \/ StartOn(p, ChannelOf(p))
        \/ CallerStep(p)
    \/ \E c \in Channels :
        \/ LockExpire(c)
        \/ TtlLapse(c)
        \/ RecordExpire(c)

SpecIndep == InitIndep /\ [][NextIndep]_vars

\* ============================================================= SpecRetry
\* retry_with_backoff(func, max_retries, initial_delay, max_delay,
\* exponential_base, jitter), utils/retry.py lines 10-65.
ErrKinds == {"ToolError", "Timeout"}
InitialDelays == {1, 2}
MaxDelays == {1, 3}
Bases == {1, 2}

RECURSIVE Pow(_, _)
Pow(b, n) == IF n = 0 THEN 1 ELSE b * Pow(b, n - 1)

Min(a, b) == IF a <= b THEN a ELSE b

\* The delay without the cap of max_delay.
BaseDelay_Uncapped(cfg, attempt) ==
    cfg.initial_delay * Pow(cfg.exponential_base, attempt)

\* Lines 50-53: delay = min(initial_delay * exponential_base ** attempt, max_delay).
BaseDelay(cfg, attempt) ==
    Min(cfg.initial_delay * Pow(cfg.exponential_base, attempt), cfg.max_delay)

\* Lines 55-56, in half seconds: delay *= (0.5 + random.random()) puts the
\* delay in [0.5 * delay, 1.5 * delay); without jitter it stays delay.
SleptHalves(cfg, attempt) ==
    LET d == BaseDelay(cfg, attempt) IN
    IF cfg.jitter THEN d .. (3 * d - 1) ELSE {2 * d}

\* "raise" replaced by raising the first error seen.
Reraise_First(e, errs) == errs[1]
\* Line 47: the bare "raise" inside the except block re-raises the error e
\* of the current attempt.
Reraise(e, errs) == e

InitRetry ==
    /\ r_cfg \in [max_retries : 0..MaxRetries, initial_delay : InitialDelays,
                  max_delay : MaxDelays, exponential_base : Bases,
                  jitter : BOOLEAN]
    /\ r_pc = "try"
    /\ r_attempt = 0
    /\ r_calls = 0
    /\ r_errs = <<>>
    /\ r_delays = <<>>
    /\ r_out = [kind |-> "pending"]
    /\ ResolverIdle
    /\ lock = <<>>
    /\ semaphore = MAX_CONCURRENT_YTDLP_REQUESTS
    /\ LockIdle /\ ValidatorIdle /\ BatchIdle /\ KvIdle /\ RefreshIdle /\ TaskIdle /\ GateIdle /\ RecordIdle /\ ExtractorIdle

\* Line 41: return await func(*args, **kwargs): the attempt succeeds.
AttemptReturns ==
    /\ r_pc = "try"
    /\ r_calls' = r_calls + 1
    /\ r_out' = [kind |-> "returned", value |-> r_attempt]
    /\ r_pc' = "returned"
    /\ UNCHANGED <<r_cfg, r_attempt, r_errs, r_delays>>
    /\ UNCHANGED <<resolverVars, lockVars, validatorVars, batchVars, kvVars, refreshVars, taskVars, gateVars, recordVars>>

\* Lines 42-63: the attempt raises an error of kind k: on the last attempt
\* re-raise, else compute the delay and sleep.
AttemptRaises(k) ==
    /\ r_pc = "try"
    /\ LET e == [kind |-> k, at |-> r_attempt]
           errs == Append(r_errs, e) IN
        /\ r_calls' = r_calls + 1
        /\ r_errs' = errs
        /\ IF r_attempt = r_cfg.max_retries
           THEN /\ r_out' = [kind |-> "raised", err |-> Reraise(e, errs)]
                /\ r_pc' = "raised"
                /\ r_delays' = r_delays
           ELSE /\ \E h \in SleptHalves(r_cfg, r_attempt) :
                    r_delays' = Append(r_delays, h)
                /\ r_pc' = "sleep"
                /\ r_out' = r_out
    /\ UNCHANGED <<r_cfg, r_attempt>>
    /\ UNCHANGED <<resolverVars, lockVars, validatorVars, batchVars, kvVars, refreshVars, taskVars, gateVars, recordVars>>

\* Lines 39 and 65: asyncio.sleep(delay) returns and the for loop goes on to
\* the next attempt; once range(max_retries + 1) is used up, raise
\* last_exception.
BackoffEnds ==
    /\ r_pc = "sleep"
    /\ IF r_attempt + 1 < r_cfg.max_retries + 1
       THEN /\ r_attempt' = r_attempt + 1
            /\ r_pc' = "try"
            /\ r_out' = r_out
       ELSE /\ r_attempt' = r_attempt
            /\ r_pc' = "raised"
            /\ r_out' = [kind |-> "raised", err |-> r_errs[Len(r_errs)]]
    /\ UNCHANGED <<r_cfg, r_calls, r_errs, r_delays>>
    /\ UNCHANGED <<resolverVars, lockVars, validatorVars, batchVars, kvVars, refreshVars, taskVars, gateVars, recordVars>>

\* retry_with_backoff called on its own, with any func.
RetryCallOk == AttemptReturns /\ UNCHANGED extractorVars

RetryCallErr == \E k \in ErrKinds : AttemptRaises(k) /\ UNCHANGED extractorVars

RetryWake == BackoffEnds /\ UNCHANGED extractorVars

NextRetry ==
    \/ RetryCallOk
    \/ RetryCallErr
    \/ RetryWake

SpecRetry == InitRetry /\ [][NextRetry]_vars

\* =========================================================== SpecExtract
\* One call of YtdlpService.extract_stream_url, ytdlp_service.py lines 35-75:
\* the gate, retry_with_backoff(self._fetch_stream_url, channel_url,
\* max_retries=settings.YTDLP_MAX_RETRIES), and the except clause.
\* How one run of the external tool ends: "ok" (exit 0 and a url in the
\* JSON), "notfound" (exit code not 0, stderr names a missing or unavailable
\* video), "nonzero" (any other exit code not 0), "timeout"
\* (subprocess.TimeoutExpired), "malformed" (stdout is not JSON), "nourl"
\* (JSON without a url).
ToolOutcomes == {"ok", "notfound", "nonzero", "timeout", "malformed", "nourl"}

\* _sync_fetch_stream_url with "return None" for JSON without a url.
sync_fetch_stream_url_NoUrlNone(o) ==
    IF o = "ok" THEN [kind |-> "return", value |-> Some("record")]
    ELSE IF o = "nourl" THEN [kind |-> "return", value |-> None]
    ELSE [kind |-> "raise", err |-> IF o = "timeout" THEN "Timeout" ELSE "ToolError"]
\* _sync_fetch_stream_url, lines 90-147: the record on success; an Exception
\* for exit code not 0 (line 118), no url (line 126), TimeoutExpired (line
\* 143), JSONDecodeError (line 145).
sync_fetch_stream_url(o) ==
    IF o = "ok" THEN [kind |-> "return", value |-> Some("record")]
    ELSE [kind |-> "raise", err |-> IF o = "timeout" THEN "Timeout" ELSE "ToolError"]

\* Lines 60-75: the value of retry_with_backoff is returned when it is truthy;
\* None otherwise, and None when retry_with_backoff raised.
extract_result(out, val) ==
    IF out.kind = "returned" /\ val # None THEN val ELSE None

\* The whole extraction seen from its caller: every run of the tool ended as
\* o; a record when the tool succeeded, None after the retries otherwise.
extract_stream_url(o) ==
    LET f == sync_fetch_stream_url(o) IN
    IF f.kind = "return" THEN extract_result([kind |-> "returned"], f.value)
    ELSE extract_result([kind |-> "raised"], None)

\* retry_with_backoff's arguments at line 60: max_retries from the settings,
\* the defaults of retry.py lines 13-17 for the rest.
YtdlpRetryCfg ==
    [max_retries |-> YTDLP_MAX_RETRIES, initial_delay |-> 1, max_delay |-> 30,
     exponential_base |-> 2, jitter |-> TRUE]

InitExtract ==
    /\ ExtractorIdle
    /\ ResolverIdle
    /\ lock = <<>>
    /\ semaphore = MAX_CONCURRENT_YTDLP_REQUESTS
    /\ LockIdle /\ RetryIdle /\ ValidatorIdle /\ BatchIdle /\ KvIdle /\ RefreshIdle /\ TaskIdle /\ GateIdle /\ RecordIdle

\* Lines 56-60: pass the gate and call retry_with_backoff.
EEnter ==
    /\ e_pc = "idle"
    /\ semaphore > 0
    /\ semaphore' = semaphore - 1
    /\ e_pc' = "running"
    /\ r_cfg' = YtdlpRetryCfg
    /\ r_pc' = "try"
    /\ UNCHANGED <<r_attempt, r_calls, r_errs, r_delays, r_out>>
    /\ UNCHANGED <<e_tool, e_val, e_out>>
    /\ UNCHANGED <<stream, lock, pc, chan, use_cache, lock_acquired, result,
                   extractRes, released, quiet, allFailed, stream0, hist>>
    /\ UNCHANGED <<lockVars, validatorVars, batchVars, kvVars, refreshVars, taskVars, gateVars, recordVars>>

\* retry.py line 41 calling _fetch_stream_url: one run of the tool.
ERun ==
    /\ e_pc = "running"
    /\ \E o \in ToolOutcomes :
        LET f == sync_fetch_stream_url(o) IN
        /\ e_tool' = Append(e_tool, o)
        /\ IF f.kind = "return"
           THEN AttemptReturns /\ e_val' = f.value
           ELSE AttemptRaises(f.err) /\ e_val' = e_val
    /\ UNCHANGED <<e_pc, e_out>>

\* retry.py line 63: the sleep between two runs of the tool ends.
EWake ==
    /\ e_pc = "running"
    /\ BackoffEnds
    /\ UNCHANGED extractorVars

\* Lines 62-75: retry_with_backoff has returned or raised: leave the gate and
\* return the record or None.
ELeave ==
    /\ e_pc = "running"
    /\ r_pc \in {"returned", "raised"}
    /\ e_out' = extract_result(r_out, e_val)
    /\ e_pc' = "done"
    /\ semaphore' = semaphore + 1
    /\ UNCHANGED <<e_tool, e_val>>
    /\ UNCHANGED <<stream, lock, pc, chan, use_cache, lock_acquired, result,
                   extractRes, released, quiet, allFailed, stream0, hist>>
    /\ UNCHANGED <<lockVars, retryVars, validatorVars, batchVars, kvVars, refreshVars, taskVars, gateVars, recordVars>>

NextExtract ==
    \/ EEnter
    \/ ERun
    \/ EWake
    \/ ELeave

SpecExtract == InitExtract /\ [][NextExtract]_vars

\* ========================================================== SpecValidate
\* One ChannelValidator.validate_channels_async(channels, progress_callback)
\* batch, beside callers of the global ytdlp_service.extract_stream_url (the
\* resolver's line 77).  Item i of the input carries url i, or 0 for an empty
\* or missing 'url'.
Items == 1..NumItems
ItemUrls(n) == [1..n -> {0, 1}]
InputLists == UNION {{[i \in 1..n |-> IF f[i] = 0 THEN 0 ELSE i] : f \in ItemUrls(n)} : n \in 0..NumItems}

\* How the extraction of one item ends: the tool succeeds, or every run of it
\* fails: with a missing or unavailable video, with a timeout, otherwise.
ExtractionEnds == {"ok", "notfound", "timeout", "nonzero"}

\* ChannelValidator.__init__ line 34: self.ytdlp_service = ytdlp_service or
\* YtdlpService(): the validator's extractions pass the global gate only when
\* it was given the global instance; otherwise they pass the gate of a new one.
UsesGlobalGate(shared) == shared

\* validate_channel lines 59-73: valid when extract_stream_url returned a
\* record with a url, invalid when it returned None.  extract_stream_url
\* catches every exception of the tool, so the except clauses of lines 75-102
\* are not entered.
validate_channel(extracted) == IF extracted THEN "valid" ELSE "invalid"

InitValidate ==
    /\ v_channels \in InputLists
    /\ v_shared \in BOOLEAN
    /\ v_callback \in BOOLEAN
    /\ v_main = "idle"
    /\ v_task = [i \in DOMAIN v_channels |-> "none"]
    /\ v_status = [i \in DOMAIN v_channels |-> "none"]
    /\ v_doneq = <<>>
    /\ v_sem = VALIDATOR_CONCURRENCY
    /\ y_sem = MAX_CONCURRENT_YTDLP_REQUESTS
    /\ v_results = <<>>
    /\ v_validated = 0
    /\ v_reported = <<>>
    /\ v_cause = [i \in DOMAIN v_channels |-> "none"]
    /\ x_pc = [p \in Callers |-> "idle"]
    /\ ResolverIdle
    /\ lock = <<>>
    /\ semaphore = MAX_CONCURRENT_YTDLP_REQUESTS
    /\ LockIdle /\ RetryIdle /\ BatchIdle /\ KvIdle /\ RefreshIdle /\ TaskIdle /\ GateIdle /\ RecordIdle /\ ExtractorIdle

\* Lines 120-137: return [] for an empty list; else one validate_channel task
\* per item whose url is not empty, all started by asyncio.as_completed.
VStart ==
    /\ v_main = "idle"
    /\ IF Len(v_channels) = 0
       THEN /\ v_main' = "returned"
            /\ v_task' = v_task
       ELSE /\ v_main' = "loop"
            /\ v_task' = [i \in DOMAIN v_channels |->
                            IF v_channels[i] # 0 THEN "gate" ELSE "none"]
    /\ UNCHANGED v_cause
    /\ UNCHANGED <<v_channels, v_shared, v_callback, v_status, v_doneq, v_sem,
                   y_sem, v_results, v_validated, v_reported, x_pc>>
    /\ UNCHANGED <<resolverVars, lockVars, retryVars, batchVars, kvVars, refreshVars, taskVars, gateVars, recordVars, extractorVars>>

\* validate_channel entered without waiting for a free slot of the semaphore.
VGate_NoWait(i) ==
    /\ i \in DOMAIN v_task
    /\ v_task[i] = "gate"
    /\ v_sem' = v_sem - 1
    /\ v_task' = [v_task EXCEPT ![i] = "extract"]
    /\ UNCHANGED v_cause
    /\ UNCHANGED <<v_channels, v_shared, v_callback, v_main, v_status, v_doneq,
                   y_sem, v_results, v_validated, v_reported, x_pc>>
    /\ UNCHANGED <<resolverVars, lockVars, retryVars, batchVars, kvVars, refreshVars, taskVars, gateVars, recordVars, extractorVars>>

\* validate_channel line 51: async with self.semaphore.
VGate(i) ==
    /\ i \in DOMAIN v_task
    /\ v_task[i] = "gate"
    /\ v_sem > 0
    /\ v_sem' = v_sem - 1
    /\ v_task' = [v_task EXCEPT ![i] = "extract"]
    /\ UNCHANGED v_cause
    /\ UNCHANGED <<v_channels, v_shared, v_callback, v_main, v_status, v_doneq,
                   y_sem, v_results, v_validated, v_reported, x_pc>>
    /\ UNCHANGED <<resolverVars, lockVars, retryVars, batchVars, kvVars, refreshVars, taskVars, gateVars, recordVars, extractorVars>>

\* validate_channel line 57 and ytdlp_service line 56: the extraction passes
\* the gate of the validator's ytdlp_service.
VAdmit(i) ==
    /\ i \in DOMAIN v_task
    /\ v_task[i] = "extract"
    /\ IF UsesGlobalGate(v_shared)
       THEN /\ semaphore > 0
            /\ semaphore' = semaphore - 1
            /\ y_sem' = y_sem
       ELSE /\ y_sem > 0
            /\ y_sem' = y_sem - 1
            /\ semaphore' = semaphore
    /\ v_task' = [v_task EXCEPT ![i] = "running"]
    /\ UNCHANGED v_cause
    /\ UNCHANGED <<v_channels, v_shared, v_callback, v_main, v_status, v_doneq,
                   v_sem, v_results, v_validated, v_reported, x_pc>>
    /\ UNCHANGED <<stream, lock, pc, chan, use_cache, lock_acquired, result,
                   extractRes, released, quiet, allFailed, stream0, hist>>
    /\ UNCHANGED <<lockVars, retryVars, batchVars, kvVars, refreshVars, taskVars, gateVars, recordVars, extractorVars>>

\* ytdlp_service lines 60-75 and validate_channel lines 59-73: the extraction
\* returns (a record or None), both gates are left and the task finishes
\* with its ChannelValidationResult.
VFinish(i) ==
    /\ i \in DOMAIN v_task
    /\ v_task[i] = "running"
    /\ \E o \in ExtractionEnds :
        /\ v_cause' = [v_cause EXCEPT ![i] = o]
        /\ v_status' = [v_status EXCEPT ![i] =
                          validate_channel(extract_stream_url(o) # None)]
    /\ IF UsesGlobalGate(v_shared)
       THEN semaphore' = semaphore + 1 /\ y_sem' = y_sem
       ELSE y_sem' = y_sem + 1 /\ semaphore' = semaphore
    /\ v_sem' = v_sem + 1
    /\ v_task' = [v_task EXCEPT ![i] = "finished"]
    /\ v_doneq' = Append(v_doneq, i)
    /\ UNCHANGED <<v_channels, v_shared, v_callback, v_main, v_results,
                   v_validated, v_reported, x_pc>>
    /\ UNCHANGED <<stream, lock, pc, chan, use_cache, lock_acquired, result,
                   extractRes, released, quiet, allFailed, stream0, hist>>
    /\ UNCHANGED <<lockVars, retryVars, batchVars, kvVars, refreshVars, taskVars, gateVars, recordVars, extractorVars>>

\* Lines 137-156: the loop takes the next finished task: append its result,
\* validated += 1, call progress_callback; when the callback raises, the
\* except clause adds one to validated again.
VConsume ==
    /\ v_main = "loop"
    /\ v_doneq # <<>>
    /\ LET i == Head(v_doneq) IN
        /\ v_doneq' = Tail(v_doneq)
        /\ v_task' = [v_task EXCEPT ![i] = "consumed"]
        /\ v_results' = Append(v_results, [url |-> v_channels[i], status |-> v_status[i]])
        /\ IF v_callback
           THEN /\ v_reported' = Append(v_reported, v_validated + 1)
                /\ \E raises \in BOOLEAN :
                    v_validated' = IF raises THEN v_validated + 2 ELSE v_validated + 1
           ELSE /\ v_reported' = v_reported
                /\ v_validated' = v_validated + 1
    /\ UNCHANGED v_cause
    /\ UNCHANGED <<v_channels, v_shared, v_callback, v_main, v_status, v_sem,
                   y_sem, x_pc>>
    /\ UNCHANGED <<resolverVars, lockVars, retryVars, batchVars, kvVars, refreshVars, taskVars, gateVars, recordVars, extractorVars>>

\* Lines 158-159: every task has been yielded: return results.
VReturn ==
    /\ v_main = "loop"
    /\ \A i \in DOMAIN v_task : v_task[i] \in {"none", "consumed"}
    /\ v_main' = "returned"
    /\ UNCHANGED v_cause
    /\ UNCHANGED <<v_channels, v_shared, v_callback, v_task, v_status, v_doneq,
                   v_sem, y_sem, v_results, v_validated, v_reported, x_pc>>
    /\ UNCHANGED <<resolverVars, lockVars, retryVars, batchVars, kvVars, refreshVars, taskVars, gateVars, recordVars, extractorVars>>

\* A caller outside the batch calls the global extract_stream_url
\* (stream_resolver line 77) and waits at its gate.
XCall(p) ==
    /\ x_pc[p] = "idle"
    /\ x_pc' = [x_pc EXCEPT ![p] = "waiting"]
    /\ UNCHANGED v_cause
    /\ UNCHANGED <<v_channels, v_shared, v_callback, v_main, v_task, v_status,
                   v_doneq, v_sem, y_sem, v_results, v_validated, v_reported>>
    /\ UNCHANGED <<resolverVars, lockVars, retryVars, batchVars, kvVars, refreshVars, taskVars, gateVars, recordVars, extractorVars>>

\* ytdlp_service line 56: async with self.semaphore, on the global instance.
XAdmit(p) ==
    /\ x_pc[p] = "waiting"
    /\ semaphore > 0
    /\ semaphore' = semaphore - 1
    /\ x_pc' = [x_pc EXCEPT ![p] = "running"]
    /\ UNCHANGED v_cause
    /\ UNCHANGED <<v_channels, v_shared, v_callback, v_main, v_task, v_status,
                   v_doneq, v_sem, y_sem, v_results, v_validated, v_reported>>
    /\ UNCHANGED <<stream, lock, pc, chan, use_cache, lock_acquired, result,
                   extractRes, released, quiet, allFailed, stream0, hist>>
    /\ UNCHANGED <<lockVars, retryVars, batchVars, kvVars, refreshVars, taskVars, gateVars, recordVars, extractorVars>>

\* ytdlp_service lines 66-75: the extraction returns and frees its slot.
XReturn(p) ==
    /\ x_pc[p] = "running"
    /\ semaphore' = semaphore + 1
    /\ x_pc' = [x_pc EXCEPT ![p] = "idle"]
    /\ UNCHANGED v_cause
    /\ UNCHANGED <<v_channels, v_shared, v_callback, v_main, v_task, v_status,
                   v_doneq, v_sem, y_sem, v_results, v_validated, v_reported>>
    /\ UNCHANGED <<stream, lock, pc, chan, use_cache, lock_acquired, result,
                   extractRes, released, quiet, allFailed, stream0, hist>>
    /\ UNCHANGED <<lockVars, retryVars, batchVars, kvVars, refreshVars, taskVars, gateVars, recordVars, extractorVars>>

NextValidate ==
    \/ VStart
    \/ \E i \in Items :
        \/ VGate(i)
        \/ VAdmit(i)
        \/ VFinish(i)
    \/ VConsume
    \/ VReturn
    \/ \E p \in Callers :
        \/ XCall(p)
        \/ XAdmit(p)
        \/ XReturn(p)

SpecValidate == InitValidate /\ [][NextValidate]_vars

\* channels_admin._validate_channels_task lines 214-226 and
\* validate_and_filter lines 203-212: for channel, result in zip(channels,
\* results): channel i of the input is given the status of the i-th entry of
\* the list that validate_channels_async returned.
zip_status(channels, results) ==
    [i \in 1..Min(Len(channels), Len(results)) |->
        [channel |-> channels[i], status |-> results[i].status,
         result_url |-> results[i].url]]

\* =============================================================== SpecGate
\* One validate_channels_async batch of NumTasks items, each with a url and
\* no progress_callback, beside one caller of the global extract_stream_url.
Tasks == 1..NumTasks

InitGate ==
    /\ v_channels = [i \in Tasks |-> i]
    /\ v_shared \in BOOLEAN
    /\ v_callback = FALSE
    /\ v_main = "idle"
    /\ v_task = [i \in Tasks |-> "none"]
    /\ v_status = [i \in Tasks |-> "none"]
    /\ v_doneq = <<>>
    /\ v_sem = VALIDATOR_CONCURRENCY
    /\ y_sem = MAX_CONCURRENT_YTDLP_REQUESTS
    /\ v_results = <<>>
    /\ v_validated = 0
    /\ v_reported = <<>>
    /\ v_cause = [i \in Tasks |-> "none"]
    /\ x_pc = [p \in Callers |-> "idle"]
    /\ ResolverIdle
    /\ lock = <<>>
    /\ semaphore = MAX_CONCURRENT_YTDLP_REQUESTS
    /\ LockIdle /\ RetryIdle /\ BatchIdle /\ KvIdle /\ RefreshIdle /\ TaskIdle /\ GateIdle /\ RecordIdle /\ ExtractorIdle

NextGate ==
    \/ VStart
    \/ \E i \in Tasks :
        \/ VGate(i)
        \/ VAdmit(i)
        \/ VFinish(i)
    \/ VConsume
    \/ VReturn
    \/ XCall(FairCaller)
    \/ XAdmit(FairCaller)
    \/ XReturn(FairCaller)

SpecGate == InitGate /\ [][NextGate]_vars

\* ============================================================= SpecBatch
\* StreamResolverService.batch_get_streams(channels, timeout), lines 157-191.
\* The channels are named 1..b_channels; each get_stream_url task ends with
\* a url or with None (it raises nothing).
BatchResults == {"url", "None"}
Completed == {i \in DOMAIN b_task : b_task[i] \in BatchResults}

InitBatch ==
    /\ b_channels \in 0..NumItems
    /\ b_timeout \in BOOLEAN
    /\ b_main = "idle"
    /\ b_task = [i \in 1..b_channels |-> "running"]
    /\ b_out = <<>>
    /\ b_timedout = FALSE
    /\ ResolverIdle
    /\ lock = <<>>
    /\ semaphore = MAX_CONCURRENT_YTDLP_REQUESTS
    /\ LockIdle /\ RetryIdle /\ ValidatorIdle /\ ExtractorIdle /\ KvIdle /\ RefreshIdle /\ TaskIdle /\ GateIdle /\ RecordIdle

\* Lines 172-180: the tasks are created and gathered under asyncio.wait_for.
BStart ==
    /\ b_main = "idle"
    /\ b_main' = "waiting"
    /\ UNCHANGED <<b_channels, b_timeout, b_task, b_out, b_timedout>>
    /\ UNCHANGED <<resolverVars, lockVars, retryVars, validatorVars, extractorVars, kvVars, refreshVars, taskVars, gateVars, recordVars>>

\* One get_stream_url task of the gather ends, with a url or with None.
BTaskDone(i) ==
    /\ b_main = "waiting"
    /\ i \in DOMAIN b_task
    /\ b_task[i] = "running"
    /\ \E r \in BatchResults : b_task' = [b_task EXCEPT ![i] = r]
    /\ UNCHANGED <<b_channels, b_timeout, b_main, b_out, b_timedout>>
    /\ UNCHANGED <<resolverVars, lockVars, retryVars, validatorVars, extractorVars, kvVars, refreshVars, taskVars, gateVars, recordVars>>

\* Lines 177-186: every task has ended before the deadline: the dict of all
\* the channels with their results.
BGather ==
    /\ b_main = "waiting"
    /\ \A i \in DOMAIN b_task : b_task[i] \in BatchResults
    /\ b_out' = b_task
    /\ b_main' = "returned"
    /\ UNCHANGED <<b_channels, b_timeout, b_task, b_timedout>>
    /\ UNCHANGED <<resolverVars, lockVars, retryVars, validatorVars, extractorVars, kvVars, refreshVars, taskVars, gateVars, recordVars>>

\* Lines 188-190: the deadline passes with a task still running: wait_for
\* cancels the gather and its tasks, and the except clause returns {}.
BTimeout ==
    /\ b_main = "waiting"
    /\ b_timeout
    /\ \E i \in DOMAIN b_task : b_task[i] = "running"
    /\ b_task' = [i \in DOMAIN b_task |->
                    IF b_task[i] = "running" THEN "cancelled" ELSE b_task[i]]
    /\ b_out' = <<>>
    /\ b_timedout' = TRUE
    /\ b_main' = "returned"
    /\ UNCHANGED <<b_channels, b_timeout>>
    /\ UNCHANGED <<resolverVars, lockVars, retryVars, validatorVars, extractorVars, kvVars, refreshVars, taskVars, gateVars, recordVars>>

NextBatch ==
    \/ BStart
    \/ \E i \in Items : BTaskDone(i)
    \/ BGather
    \/ BTimeout

SpecBatch == InitBatch /\ [][NextBatch]_vars

\* ========================================================== SpecRoundTrip
\* CacheService.set_stream_url, get_stream_url, invalidate and get_or_set
\* called directly on one key, with the value kept as the JSON text that
\* json.dumps writes and json.loads reads (cache_service.py lines 50-52, 81).
\* A Python dict: a function from keys to values.  A key is a str or an int; a
\* value is a str, a list, a tuple, or a datetime.
PyKeys == {[t |-> "str", s |-> "url"], [t |-> "int", s |-> "1"]}
PyValues == {"str", "list", "tuple", "datetime"}
Dicts == UNION {[K -> PyValues] : K \in SUBSET PyKeys}
EmptyDict == <<>>

\* json.dumps(stream_data), line 81: an int key is written as its decimal
\* text, a tuple as an array; a datetime is not serializable (TypeError).
Serializable(d) == \A k \in DOMAIN d : d[k] # "datetime"
JsonValue(v) == IF v = "str" THEN "string" ELSE "array"
json_dumps(d) == [n \in {k.s : k \in DOMAIN d} |->
                    JsonValue(d[CHOOSE k \in DOMAIN d : k.s = n])]

\* json.loads that gives each key and each array back as it was written.
json_loads_Typed(j) ==
    [k \in {q \in PyKeys : q.s \in DOMAIN j} |-> IF j[k.s] = "string" THEN "str" ELSE "tuple"]
\* json.loads(cached_data), line 52: every key comes back as a str, every
\* array as a list.
PyValue(j) == IF j = "string" THEN "str" ELSE "list"
json_loads(j) == [k \in {[t |-> "str", s |-> n] : n \in DOMAIN j} |-> PyValue(j[k.s])]

\* A dict that json.loads(json.dumps(d)) gives back unchanged.
Faithful(d) == \A k \in DOMAIN d : k.t = "str" /\ d[k] \in {"str", "list"}

\* get_stream_url on the JSON text, lines 46-58: None when the key is absent,
\* its text is empty, or the read raised.
get_stream_url_json(ok, c) ==
    IF ok /\ c \in DOMAIN k_db THEN Some(json_loads(k_db[c])) ELSE None

\* set_stream_url on the JSON text, lines 77-88: False when json.dumps or
\* setex raised.
set_stream_url_json(ok, c, d) ==
    IF ok /\ Serializable(d) THEN [db |-> Put(k_db, c, json_dumps(d)), ret |-> TRUE]
                             ELSE [db |-> k_db, ret |-> FALSE]

InitRoundTrip ==
    /\ KvIdle /\ RefreshIdle /\ TaskIdle /\ GateIdle /\ RecordIdle
    /\ ResolverIdle
    /\ lock = <<>>
    /\ semaphore = MAX_CONCURRENT_YTDLP_REQUESTS
    /\ LockIdle /\ RetryIdle /\ ValidatorIdle /\ BatchIdle /\ ExtractorIdle

KvFrame == UNCHANGED <<resolverVars, lockVars, retryVars, validatorVars,
                       batchVars, extractorVars, refreshVars, taskVars, gateVars, recordVars>>

\* cache_service.set_stream_url(channel, stream_data), lines 60-88.
KSet(c) ==
    /\ \E ok \in BOOLEAN, d \in Dicts :
        LET r == set_stream_url_json(ok, c, d) IN
        /\ k_db' = r.db
        /\ k_src' = IF r.ret THEN [k_src EXCEPT ![c] = Some(d)] ELSE k_src
        /\ k_call' = [op |-> "set", key |-> c, ok |-> ok, arg |-> d, ret |-> r.ret]
    /\ KvFrame

\* cache_service.get_stream_url(channel), lines 36-58.
KGet(c) ==
    /\ \E ok \in BOOLEAN :
        k_call' = [op |-> "get", key |-> c, ok |-> ok,
                   ret |-> get_stream_url_json(ok, c)]
    /\ UNCHANGED <<k_db, k_src>>
    /\ KvFrame

\* cache_service.invalidate(channel), lines 121-130.
KInvalidate(c) ==
    /\ \E ok \in BOOLEAN :
        /\ k_db' = IF ok THEN Del(k_db, c) ELSE k_db
        /\ k_src' = IF ok THEN [k_src EXCEPT ![c] = None] ELSE k_src
        /\ k_call' = [op |-> "invalidate", key |-> c, ok |-> ok, ret |-> ok]
    /\ KvFrame

\* The TTL given to setex (line 82) elapses.
KTtlLapse(c) ==
    /\ c \in DOMAIN k_db
    /\ k_db' = Del(k_db, c)
    /\ k_src' = [k_src EXCEPT ![c] = None]
    /\ k_call' = [op |-> "lapse", key |-> c]
    /\ KvFrame

\* get_or_set that returns what fetch_func gave without writing it.
KGetOrSet_NoWrite(c) ==
    /\ \E okGet, okSet \in BOOLEAN, fetched \in {None} \cup {Some(d) : d \in Dicts} :
        LET cached == get_stream_url_json(okGet, c)
            hit == cached # None /\ cached[1] # EmptyDict
            truthy == fetched # None /\ fetched[1] # EmptyDict
            w == [db |-> k_db, ret |-> FALSE]
        IN
        /\ k_db' = w.db
        /\ k_src' = IF w.ret THEN [k_src EXCEPT ![c] = fetched] ELSE k_src
        /\ k_call' = [op |-> "get_or_set", key |-> c, ok |-> okGet,
                      present |-> c \in DOMAIN k_db, src |-> k_src[c],
                      after |-> k_call.op, okSet |-> okSet,
                      fetched |-> ~hit,
                      ret |-> IF hit THEN cached ELSE fetched]
    /\ KvFrame

\* cache_service.get_or_set(channel, fetch_func), lines 90-119: fetch_func is
\* called when get_stream_url gave nothing truthy (None or an empty dict); a
\* truthy value it returns is written with set_stream_url and returned.
KGetOrSet(c) ==
    /\ \E okGet, okSet \in BOOLEAN, fetched \in {None} \cup {Some(d) : d \in Dicts} :
        LET cached == get_stream_url_json(okGet, c)
            hit == cached # None /\ cached[1] # EmptyDict
            truthy == fetched # None /\ fetched[1] # EmptyDict
            w == IF ~hit /\ truthy THEN set_stream_url_json(okSet, c, fetched[1])
                                  ELSE [db |-> k_db, ret |-> FALSE]
        IN
        /\ k_db' = w.db
        /\ k_src' = IF w.ret THEN [k_src EXCEPT ![c] = fetched] ELSE k_src
        /\ k_call' = [op |-> "get_or_set", key |-> c, ok |-> okGet,
                      present |-> c \in DOMAIN k_db, src |-> k_src[c],
                      after |-> k_call.op, okSet |-> okSet,
                      fetched |-> ~hit,
                      ret |-> IF hit THEN cached ELSE fetched]
    /\ KvFrame

NextRoundTrip ==
    \E c \in CalledChannels :
        \/ KSet(c)
        \/ KGet(c)
        \/ KInvalidate(c)
        \/ KTtlLapse(c)
        \/ KGetOrSet(c)

SpecRoundTrip == InitRoundTrip /\ [][NextRoundTrip]_vars

\* ============================================================ SpecRefresh
\* StreamResolverService.verify_and_refresh_streams(channels), lines 129-155:
\* a for loop that awaits get_stream_url(url, name, use_cache=True) for one
\* channel after the other and appends one entry per channel.
ChannelLists == UNION {[1..n -> Channels] : n \in 0..NumItems}

\* Line 151: 'online' if stream_url else 'offline'.
refresh_status(r) == IF r # "None" THEN "online" ELSE "offline"

InitRefresh ==
    /\ f_channels \in ChannelLists
    /\ f_main = "idle"
    /\ f_call = [i \in DOMAIN f_channels |-> "notstarted"]
    /\ f_results = <<>>
    /\ ResolverIdle
    /\ lock = <<>>
    /\ semaphore = MAX_CONCURRENT_YTDLP_REQUESTS
    /\ LockIdle /\ RetryIdle /\ ValidatorIdle /\ BatchIdle /\ ExtractorIdle
    /\ KvIdle /\ TaskIdle /\ GateIdle /\ RecordIdle

RefreshFrame == UNCHANGED <<resolverVars, lockVars, retryVars, validatorVars,
                            batchVars, extractorVars, kvVars, taskVars, gateVars, recordVars>>

\* Line 138: results = [] and the loop is entered.
FStart ==
    /\ f_main = "idle"
    /\ f_main' = "loop"
    /\ UNCHANGED <<f_channels, f_call, f_results>>
    /\ RefreshFrame

\* Every channel's get_stream_url started at once, as asyncio.gather would.
FResolve_AllAtOnce(i) ==
    /\ f_main = "loop"
    /\ i \in DOMAIN f_call
    /\ f_call[i] = "notstarted"
    /\ f_call' = [f_call EXCEPT ![i] = "running"]
    /\ UNCHANGED <<f_channels, f_main, f_results>>
    /\ RefreshFrame

\* Lines 140-145: iteration i calls get_stream_url; it is reached when the
\* iterations before it have appended their entries.
FResolve(i) ==
    /\ f_main = "loop"
    /\ i \in DOMAIN f_call
    /\ i = Len(f_results) + 1
    /\ f_call[i] = "notstarted"
    /\ f_call' = [f_call EXCEPT ![i] = "running"]
    /\ UNCHANGED <<f_channels, f_main, f_results>>
    /\ RefreshFrame

\* Lines 141-153: the awaited get_stream_url returns a url or None, and the
\* entry of the channel is appended.
FAppend(i) ==
    /\ f_main = "loop"
    /\ i \in DOMAIN f_call
    /\ f_call[i] = "running"
    /\ \E r \in BatchResults :
        /\ f_call' = [f_call EXCEPT ![i] = r]
        /\ f_results' = Append(f_results, [name |-> f_channels[i], at |-> i,
                                           stream_url |-> r,
                                           status |-> refresh_status(r)])
    /\ UNCHANGED <<f_channels, f_main>>
    /\ RefreshFrame

\* Line 155: the loop is over: return results.
FReturn ==
    /\ f_main = "loop"
    /\ Len(f_results) = Len(f_channels)
    /\ f_main' = "returned"
    /\ UNCHANGED <<f_channels, f_call, f_results>>
    /\ RefreshFrame

NextRefresh ==
    \/ FStart
    \/ \E i \in Items :
        \/ FResolve(i)
        \/ FAppend(i)
    \/ FReturn

SpecRefresh == InitRefresh /\ [][NextRefresh]_vars

\* =============================================================== SpecTask
\* One background task channels_admin._validate_channels_task(task_id,
\* channels), lines 192-244: it creates validation_tasks[task_id], awaits
\* validate_channels_async(channels, progress_callback = _update_progress),
\* counts the zip of channels and results and marks the task completed; any
\* exception inside the try marks it failed.  confirm_import launches it
\* only when added_count > 0 (line 158), so the list is not empty; an item may
\* carry an empty url (ChannelInfo.url is any str).
TaskId == "import_1"

\* Line 201-205: the task as created.
NewTask(channels) ==
    [status |-> "running",
     progress |-> [total |-> Len(channels), validated |-> 0,
                   succeeded |-> 0, failed |-> 0],
     results |-> <<>>]

\* _update_progress, lines 240-244: progress['validated'] = info['validated']
\* when the task id is known.
update_progress(tasks, id, validated) ==
    IF id \in DOMAIN tasks
    THEN [tasks EXCEPT ![id].progress.validated = validated]
    ELSE tasks

\* Lines 214-226, one iteration: succeeded += 1 for a result with status
\* valid, failed += 1 for any other.
count_result(task, status) ==
    IF status = "valid"
    THEN [task EXCEPT !.progress.succeeded = @ + 1]
    ELSE [task EXCEPT !.progress.failed = @ + 1]

InitTask ==
    /\ v_channels \in InputLists \ {<<>>}
    /\ v_shared \in BOOLEAN
    /\ v_callback = TRUE
    /\ v_main = "idle"
    /\ v_task = [i \in DOMAIN v_channels |-> "none"]
    /\ v_status = [i \in DOMAIN v_channels |-> "none"]
    /\ v_doneq = <<>>
    /\ v_sem = VALIDATOR_CONCURRENCY
    /\ y_sem = MAX_CONCURRENT_YTDLP_REQUESTS
    /\ v_results = <<>>
    /\ v_validated = 0
    /\ v_reported = <<>>
    /\ v_cause = [i \in DOMAIN v_channels |-> "none"]
    /\ x_pc = [p \in Callers |-> "idle"]
    /\ TaskIdle /\ GateIdle /\ RecordIdle
    /\ ResolverIdle
    /\ lock = <<>>
    /\ semaphore = MAX_CONCURRENT_YTDLP_REQUESTS
    /\ LockIdle /\ RetryIdle /\ BatchIdle /\ KvIdle /\ RefreshIdle /\ ExtractorIdle

TaskFrame == UNCHANGED <<resolverVars, lockVars, retryVars, batchVars, kvVars,
                         refreshVars, extractorVars, gateVars, recordVars>>

\* Lines 200-205: validation_tasks[task_id] = {...status running...}.
TCreate ==
    /\ t_pc = "idle"
    /\ validation_tasks' = Put(validation_tasks, TaskId, NewTask(v_channels))
    /\ t_pc' = "validating"
    /\ UNCHANGED validatorVars
    /\ TaskFrame

\* Line 208: the call of validate_channels_async.
TValidate ==
    /\ t_pc = "validating"
    /\ VStart

\* channel_validator lines 137-152 with progress_callback = _update_progress:
\* the next finished task is taken, its result appended, validated += 1, and
\* the callback stores validated in the task's progress.  _update_progress
\* does not raise.
TConsume ==
    /\ t_pc = "validating"
    /\ v_main = "loop"
    /\ v_doneq # <<>>
    /\ LET i == Head(v_doneq) IN
        /\ v_doneq' = Tail(v_doneq)
        /\ v_task' = [v_task EXCEPT ![i] = "consumed"]
        /\ v_results' = Append(v_results, [url |-> v_channels[i], status |-> v_status[i]])
        /\ v_validated' = v_validated + 1
        /\ v_reported' = Append(v_reported, v_validated + 1)
        /\ validation_tasks' = update_progress(validation_tasks, TaskId, v_validated + 1)
    /\ UNCHANGED <<v_channels, v_shared, v_callback, v_main, v_status, v_sem,
                   y_sem, v_cause, x_pc, t_pc>>
    /\ TaskFrame

\* Line 208 returns: validate_channels_async has returned its results.
TReturned ==
    /\ t_pc = "validating"
    /\ v_main = "returned"
    /\ t_pc' = "update"
    /\ UNCHANGED validation_tasks
    /\ UNCHANGED validatorVars
    /\ TaskFrame

\* The pairs of zip(channels, results) counted so far.
Counted(task) == task.progress.succeeded + task.progress.failed

\* Lines 214-226: one iteration of the loop over zip(channels, results).
TCount ==
    /\ t_pc = "update"
    /\ LET task == validation_tasks[TaskId]
           pairs == zip_status(v_channels, v_results)
           k == Counted(task) + 1 IN
        /\ k \in DOMAIN pairs
        /\ validation_tasks' =
              [validation_tasks EXCEPT ![TaskId] = count_result(task, pairs[k].status)]
    /\ UNCHANGED t_pc
    /\ UNCHANGED validatorVars
    /\ TaskFrame

\* Lines 228-230: the loop is over: status = 'completed', results stored.
TComplete ==
    /\ t_pc = "update"
    /\ Counted(validation_tasks[TaskId]) = Len(zip_status(v_channels, v_results))
    /\ validation_tasks' = [validation_tasks EXCEPT ![TaskId].status = "completed",
                                                     ![TaskId].results = v_results]
    /\ t_pc' = "finished"
    /\ UNCHANGED validatorVars
    /\ TaskFrame

\* The except clause entered whenever an exception is raised, also after the
\* task was marked completed.
TRaise_Late ==
    /\ t_pc \in {"validating", "update", "finished"}
    /\ validation_tasks' = [validation_tasks EXCEPT ![TaskId].status = "failed"]
    /\ t_pc' = "finished"
    /\ UNCHANGED validatorVars
    /\ TaskFrame

\* Lines 234-237: an exception raised inside the try, by the awaited
\* validate_channels_async or by an update_channel call of the loop, reaches
\* the except clause: status = 'failed'.
TRaise ==
    /\ t_pc \in {"validating", "update"}
    /\ validation_tasks' = [validation_tasks EXCEPT ![TaskId].status = "failed"]
    /\ t_pc' = "finished"
    /\ UNCHANGED validatorVars
    /\ TaskFrame

NextTask ==
    \/ TCreate
    \/ TValidate
    \/ \E i \in Items :
        \/ VGate(i)
        \/ VAdmit(i)
        \/ VFinish(i)
    \/ TConsume
    \/ VReturn
    \/ TReturned
    \/ TCount
    \/ TComplete
    \/ TRaise

\* The event loop runs every coroutine that is ready and every extraction
\* ends, so a step that can be taken is taken.
SpecTask == InitTask /\ [][NextTask]_vars /\ WF_vars(NextTask)

\* ============================================================== SpecSlots
\* NumTasks concurrent calls of extract_stream_url on the global
\* YtdlpService (ytdlp_service.py lines 35-75), one per caller: each waits at
\* `async with self.semaphore`, runs retry_with_backoff(_fetch_stream_url,
\* max_retries = YTDLP_MAX_RETRIES) inside it and leaves it on its return.
ExtractCalls == 1..NumTasks

\* The calls that hold a slot of the gate: admitted and not yet returned.
InsideGate == {p \in DOMAIN g_pc : g_pc[p] \in {"try", "sleep"}}

InitSlots ==
    /\ g_pc = [p \in ExtractCalls |-> "idle"]
    /\ g_attempt = [p \in ExtractCalls |-> 0]
    /\ g_out = [p \in ExtractCalls |-> "pending"]
    /\ ResolverIdle
    /\ lock = <<>>
    /\ semaphore = MAX_CONCURRENT_YTDLP_REQUESTS
    /\ LockIdle /\ RetryIdle /\ ValidatorIdle /\ BatchIdle /\ KvIdle /\ RefreshIdle
    /\ TaskIdle /\ RecordIdle /\ ExtractorIdle

SlotsFrame ==
    /\ UNCHANGED <<stream, lock, pc, chan, use_cache, lock_acquired, result,
                   extractRes, released, quiet, allFailed, stream0, hist>>
    /\ UNCHANGED <<lockVars, retryVars, validatorVars, batchVars, kvVars,
                   refreshVars, taskVars, recordVars, extractorVars>>

\* Line 56 reached: the call asks for a slot.
GCall(p) ==
    /\ g_pc[p] = "idle"
    /\ g_pc' = [g_pc EXCEPT ![p] = "waiting"]
    /\ UNCHANGED <<g_attempt, g_out, semaphore>>
    /\ SlotsFrame

\* Line 56: async with self.semaphore: acquire() returns once a slot is free.
GAdmit(p) ==
    /\ g_pc[p] = "waiting"
    /\ semaphore > 0
    /\ semaphore' = semaphore - 1
    /\ g_pc' = [g_pc EXCEPT ![p] = "try"]
    /\ UNCHANGED <<g_attempt, g_out>>
    /\ SlotsFrame

\* The gate written as acquire() ... release() with the release after the
\* success return only: a call whose retries are used up keeps its slot.
GRun_LeakOnFailure(p) ==
    /\ g_pc[p] = "try"
    /\ \E o \in ToolOutcomes :
        LET f == sync_fetch_stream_url(o) IN
        IF f.kind = "return"
        THEN /\ g_out' = [g_out EXCEPT ![p] = "record"]
             /\ g_pc' = [g_pc EXCEPT ![p] = "done"]
             /\ semaphore' = semaphore + 1
        ELSE IF g_attempt[p] = YTDLP_MAX_RETRIES
        THEN /\ g_out' = [g_out EXCEPT ![p] = "None"]
             /\ g_pc' = [g_pc EXCEPT ![p] = "done"]
             /\ semaphore' = semaphore
        ELSE /\ g_out' = g_out
             /\ g_pc' = [g_pc EXCEPT ![p] = "sleep"]
             /\ semaphore' = semaphore
    /\ UNCHANGED g_attempt
    /\ SlotsFrame

\* Lines 60-75 with retry.py lines 39-63: one run of _fetch_stream_url.  A
\* record ends the call (lines 66-68); an error before the last attempt goes
\* to the backoff sleep, inside the gate; the error of the last attempt is
\* re-raised, caught at line 73 and the call returns None.  Leaving the
\* async with block frees the slot on either return.
GRun(p) ==
    /\ g_pc[p] = "try"
    /\ \E o \in ToolOutcomes :
        LET f == sync_fetch_stream_url(o) IN
        IF f.kind = "return"
        THEN /\ g_out' = [g_out EXCEPT ![p] = "record"]
             /\ g_pc' = [g_pc EXCEPT ![p] = "done"]
             /\ semaphore' = semaphore + 1
        ELSE IF g_attempt[p] = YTDLP_MAX_RETRIES
        THEN /\ g_out' = [g_out EXCEPT ![p] = "None"]
             /\ g_pc' = [g_pc EXCEPT ![p] = "done"]
             /\ semaphore' = semaphore + 1
        ELSE /\ g_out' = g_out
             /\ g_pc' = [g_pc EXCEPT ![p] = "sleep"]
             /\ semaphore' = semaphore
    /\ UNCHANGED g_attempt
    /\ SlotsFrame

\* retry.py line 63: the backoff sleep ends and the next attempt begins.
GWake(p) ==
    /\ g_pc[p] = "sleep"
    /\ g_attempt' = [g_attempt EXCEPT ![p] = @ + 1]
    /\ g_pc' = [g_pc EXCEPT ![p] = "try"]
    /\ UNCHANGED <<g_out, semaphore>>
    /\ SlotsFrame

NextSlots ==
    \E p \in ExtractCalls :
        \/ GCall(p)
        \/ GAdmit(p)
        \/ GRun(p)
        \/ GWake(p)

\* Every run of the tool ends (it has a hard timeout) and every sleep ends;
\* a waiter is woken when a slot is free.
SpecSlots ==
    /\ InitSlots
    /\ [][NextSlots]_vars
    /\ \A p \in ExtractCalls :
        WF_vars(GAdmit(p)) /\ WF_vars(GRun(p)) /\ WF_vars(GWake(p))

\* ============================================================== SpecRecord
\* YtdlpService._sync_fetch_stream_url from the tool's JSON output on
\* (ytdlp_service.py lines 121-140) and StreamResolverService._is_expired
\* (stream_resolver.py lines 121-127), each called directly under one clock.
\*
\* A str is a sequence of one-character strings.  The clock counts ticks;
\* Hour ticks make timedelta(hours=1), and the clock may advance between two
\* readings of datetime.utcnow() made by one call.
MaxTime == 4
Hour == 2

\* str.startswith(prefix)
StartsWith(s, prefix) ==
    /\ Len(s) >= Len(prefix)
    /\ SubSeq(s, 1, Len(prefix)) = prefix
\* sub in s
Contains(s, sub) ==
    \E i \in 1..(Len(s) - Len(sub) + 1) : SubSeq(s, i, i + Len(sub) - 1) = sub

M3u8 == <<".", "m", "3", "u", "8">>
Https == <<"h", "t", "t", "p", "s">>

\* Stream URLs the tool may report: a scheme, a host and a path.
Schemes == {Https, <<"h", "t", "t", "p">>, <<"r", "t", "m", "p">>}
Host == <<":", "/", "/", "x", "/">>
Paths == {<<"v">> \o M3u8,
          <<"v">> \o M3u8 \o <<"?", "s">>,
          <<"v", ".", "m", "p", "d">>,
          <<"m", "3", "u", "8">>}
StreamUrls == {s \o Host \o p : s \in Schemes, p \in Paths}
\* The empty str; also stands for a key that is missing or null, which
\* `info.get('url')` and `.get('url')` give as None: both are falsy.
NoUrl == <<>>

\* json.loads(result.stdout), line 121: the keys of info that the function
\* reads.  formats is missing, or a list of dicts of which only the first is
\* read; urls is the 'url' of each dict of the list.
Infos == [url : {NoUrl} \cup StreamUrls,
          formats : {[given |-> FALSE, urls |-> <<>>]}
                    \cup {[given |-> TRUE, urls |-> l] :
                            l \in {<<>>, <<NoUrl>>,
                                   <<Https \o Host \o <<"f">> \o M3u8>>,
                                   <<<<"h", "t", "t", "p">> \o Host \o <<"f">>>>}}]

\* Line 124: info.get('url') or info.get('formats', [{}])[0].get('url').
\* An empty formats list raises IndexError.
stream_url_of(info) ==
    IF info.url # NoUrl THEN [kind |-> "value", url |-> info.url]
    ELSE LET formats == IF info.formats.given THEN info.formats.urls ELSE <<NoUrl>> IN
         IF formats = <<>> THEN [kind |-> "raise", err |-> "IndexError"]
         ELSE [kind |-> "value", url |-> formats[1]]

\* datetime.isoformat() of a naive datetime: the text "T" and the tick in two
\* decimal digits.
Digit == <<"0", "1", "2", "3", "4", "5", "6", "7", "8", "9">>
isoformat(t) == <<"T", Digit[(t \div 10) + 1], Digit[(t % 10) + 1]>>

DigitValue(c) == (CHOOSE i \in 1..10 : Digit[i] = c) - 1
IsDigit(c) == \E i \in 1..10 : Digit[i] = c
\* datetime.fromisoformat(v): the datetime that the text writes; TypeError
\* for a value that is no str, ValueError for any other text.
fromisoformat(v) ==
    IF v.type # "str" THEN [kind |-> "raise", err |-> "TypeError"]
    ELSE IF /\ Len(v.s) = 3
            /\ v.s[1] = "T"
            /\ IsDigit(v.s[2])
            /\ IsDigit(v.s[3])
    THEN [kind |-> "value", t |-> 10 * DigitValue(v.s[2]) + DigitValue(v.s[3])]
    ELSE [kind |-> "raise", err |-> "ValueError"]

\* A JSON value of a stored record: a str, or null.
Str(s) == [type |-> "str", s |-> s]
Null == [type |-> "null"]

\* _sync_fetch_stream_url with the format read from the end of the URL
\* (stream_url.endswith('.m3u8')).
fetch_record_Suffix(info, t1, t2) ==
    LET u == stream_url_of(info) IN
    IF u.kind = "raise" THEN u
    ELSE IF u.url = NoUrl THEN [kind |-> "raise", err |-> "Exception"]
    ELSE [kind |-> "return",
          value |-> [url |-> u.url,
                     format |-> IF /\ Len(u.url) >= Len(M3u8)
                                   /\ SubSeq(u.url, Len(u.url) - Len(M3u8) + 1,
                                             Len(u.url)) = M3u8
                                THEN "hls" ELSE "dash",
                     expires_at |-> isoformat(t1 + Hour),
                     protocol |-> IF StartsWith(u.url, Https) THEN "https" ELSE "http",
                     fetched_at |-> isoformat(t2)]]
\* _sync_fetch_stream_url, lines 121-140, on the tool's JSON output info: t1
\* is the clock read on line 130, t2 the clock read on line 139.  quality and
\* channel_url are copied from the inputs and are left out.
fetch_record(info, t1, t2) ==
    LET u == stream_url_of(info) IN
    IF u.kind = "raise" THEN u
    ELSE IF u.url = NoUrl THEN [kind |-> "raise", err |-> "Exception"]
    ELSE [kind |-> "return",
          value |-> [url |-> u.url,
                     format |-> IF Contains(u.url, M3u8) THEN "hls" ELSE "dash",
                     expires_at |-> isoformat(t1 + Hour),
                     protocol |-> IF StartsWith(u.url, Https) THEN "https" ELSE "http",
                     fetched_at |-> isoformat(t2)]]

\* _is_expired with a strict comparison: utcnow() > expires_at.
is_expired_at_Strict(stream_data, now) ==
    IF "expires_at" \notin DOMAIN stream_data THEN TRUE
    ELSE LET expires_at == fromisoformat(stream_data.expires_at) IN
         IF expires_at.kind = "raise" THEN TRUE ELSE now > expires_at.t
\* _is_expired, lines 121-127, with utcnow() reading now: a missing key
\* (KeyError) and a value that fromisoformat rejects end in `except: return
\* True`.
is_expired_at(stream_data, now) ==
    IF "expires_at" \notin DOMAIN stream_data THEN TRUE
    ELSE LET expires_at == fromisoformat(stream_data.expires_at) IN
         IF expires_at.kind = "raise" THEN TRUE ELSE now >= expires_at.t

\* The dicts given to _is_expired: a record with expires_at as isoformat()
\* writes it, with another text or null in its place, or without the key.
ExpiryTexts == {isoformat(t) : t \in 0..(MaxTime + Hour)}
               \cup {<<>>, <<"s", "o", "o", "n">>, <<"T", "0">>, <<"T", "x", "1">>}
StreamDatas == {[expires_at |-> Str(s)] : s \in ExpiryTexts}
               \cup {[expires_at |-> Null], [url |-> Str(Https)]}

InitRecord ==
    /\ RecordIdle
    /\ ResolverIdle
    /\ lock = <<>>
    /\ semaphore = MAX_CONCURRENT_YTDLP_REQUESTS
    /\ LockIdle /\ RetryIdle /\ ValidatorIdle /\ BatchIdle /\ KvIdle /\ RefreshIdle
    /\ TaskIdle /\ GateIdle /\ ExtractorIdle

RecordFrame == UNCHANGED <<resolverVars, lockVars, retryVars, validatorVars,
                           batchVars, extractorVars, kvVars, refreshVars,
                           taskVars, gateVars>>

\* Time passes between two calls.
NTick ==
    /\ n_now < MaxTime
    /\ n_now' = n_now + 1
    /\ UNCHANGED n_call
    /\ RecordFrame

\* _sync_fetch_stream_url after the tool ended with exit code 0 and JSON
\* output info.
NFetch ==
    /\ \E info \in Infos, t2 \in {n_now, n_now + 1} :
        /\ t2 <= MaxTime
        /\ n_now' = t2
        /\ n_call' = [op |-> "fetch", info |-> info, t1 |-> n_now, t2 |-> t2,
                      out |-> fetch_record(info, n_now, t2)]
    /\ RecordFrame

\* _is_expired(stream_data)
NExpired ==
    /\ \E stream_data \in StreamDatas :
        n_call' = [op |-> "is_expired", data |-> stream_data, now |-> n_now,
                   ret |-> is_expired_at(stream_data, n_now)]
    /\ UNCHANGED n_now
    /\ RecordFrame

\* _is_expired on the record that the last _sync_fetch_stream_url returned,
\* as the resolver reads it back from the cache.
NExpiredFetched ==
    /\ n_call # <<>>
    /\ n_call.op = "fetch"
    /\ n_call.out.kind = "return"
    /\ LET stream_data == [expires_at |-> Str(n_call.out.value.expires_at)] IN
       n_call' = [op |-> "is_expired", data |-> stream_data, now |-> n_now,
                  ret |-> is_expired_at(stream_data, n_now)]
    /\ UNCHANGED n_now
    /\ RecordFrame

NextRecord ==
    \/ NTick
    \/ NFetch
    \/ NExpired
    \/ NExpiredFetched

SpecRecord == InitRecord /\ [][NextRecord]_vars

\* ================================================================ claims
\* Resolver claims, under Spec.
InFlight(p) == pc[p] \notin {"idle", "done"}
ExtractCalled(p) == extractRes[p] # "notcalled"
OwnUrl(p) == Url(Record(p, FALSE), "extract")
HoldsOwnLock(p) == chan[p] \in DOMAIN lock /\ lock[chan[p]] = p

\* C1 (single-flight): when the channel has no cache entry at the start and
\* no store operation fails and no key lapses, two calls for the same channel
\* that overlap in time never both call extract_stream_url.
C1_SingleFlight ==
    \A p, q \in Callers :
        (/\ p # q
         /\ InFlight(p) /\ InFlight(q)
         /\ chan[p] = chan[q]
         /\ chan[p] \notin DOMAIN stream0
         /\ quiet)
        => ~(ExtractCalled(p) /\ ExtractCalled(q))

\* C2 (mutual exclusion per channel): at most one call is between the start
\* and the return of extract_stream_url for a channel; stated for the runs
\* in which no store operation fails and no key lapses.
C2_MutualExclusion ==
    \A p, q \in Callers :
        (p # q /\ chan[p] = chan[q] /\ quiet)
        => ~(pc[p] = "running" /\ pc[q] = "running")

\* C3 (no stale result): a call never returns the url of a cached record
\* whose expires_at was in the past when the call read it; stated for the
\* runs in which no store operation fails and no key lapses.
C3_NoStaleResult ==
    \A p \in Callers :
        (/\ pc[p] = "done" /\ quiet
         /\ result[p].kind = "url" /\ result[p].from = "cache")
        => ~result[p].stale

C5_UrlOrAbsent ==
    \A p \in Callers :
        pc[p] = "done"
        => (/\ result[p].kind \in {"url", "None"}
            /\ (extractRes[p] = "fail" => result[p] = Absent))

C5_Witness ==
    \E p \in Callers :
        /\ pc[p] = "done" /\ extractRes[p] = "fail" /\ result[p] = Absent
        /\ ~quiet /\ released[p] = "failed"

\* C6 (fail-open): when every store operation has failed, a returned call has
\* called extract_stream_url, and a successful extraction is returned as the
\* call's result.
C6_FailOpen ==
    \A p \in Callers :
        (pc[p] = "done" /\ allFailed)
        => (/\ extractRes[p] \in {"ok", "fail"}
            /\ (extractRes[p] = "ok" => result[p] = OwnUrl(p)))

C6_Witness ==
    \E p \in Callers :
        /\ pc[p] = "done" /\ allFailed
        /\ extractRes[p] = "ok" /\ result[p] = OwnUrl(p)

\* Validator claims, under SpecValidate.
Statuses == {"valid", "invalid", "error"}
PastGate == Cardinality({p \in Callers : x_pc[p] = "running"})
            + Cardinality({i \in DOMAIN v_task : v_task[i] = "running"})

\* C7 (one result per item): when validate_channels_async has returned, the
\* result list has exactly as many entries as the input list, and every
\* entry's status is valid, invalid or error.
C7_OneResultPerItem ==
    v_main = "returned"
    => (/\ Len(v_results) = Len(v_channels)
        /\ \A k \in DOMAIN v_results : v_results[k].status \in Statuses)

\* C10 (admission gate across the process): in every state the number of
\* extract_stream_url calls past their gate, those of the batch validator and
\* those of other callers counted together, is at most
\* MAX_CONCURRENT_YTDLP_REQUESTS.
C10_GlobalGate == PastGate <= MAX_CONCURRENT_YTDLP_REQUESTS

\* Retry claim, under SpecRetry.
\* C8 (bounded attempts, first success, last error): func is called at most
\* max_retries + 1 times; a returned call returns the value of its last
\* attempt, the only one that did not raise; a raised call has made all
\* max_retries + 1 attempts and raises the error object of the last attempt.
C8_RetryContract ==
    /\ r_calls <= r_cfg.max_retries + 1
    /\ r_pc = "returned"
       => (/\ r_out.kind = "returned"
           /\ r_out.value = r_calls - 1
           /\ Len(r_errs) = r_calls - 1)
    /\ r_pc = "raised"
       => (/\ r_out.kind = "raised"
           /\ r_calls = r_cfg.max_retries + 1
           /\ Len(r_errs) = r_calls
           /\ r_out.err = r_errs[Len(r_errs)]
           /\ r_out.err.at = r_cfg.max_retries)

C8_Witness ==
    /\ r_pc = "raised"
    /\ r_cfg.max_retries = MaxRetries
    /\ r_calls = MaxRetries + 1
    /\ r_errs[1].kind # r_errs[Len(r_errs)].kind
    /\ r_out.err = r_errs[Len(r_errs)]

\* Lock claims, under SpecLock.
\* C9 as stated: acquire_lock on a key that is absent returns true, on a key
\* that is present returns false, and after release_lock the key is absent.
C9_AcquireOnAbsent ==
    /\ lastCall.op = "acquire" => (lastCall.ret = ~lastCall.present)
    /\ lastCall.op = "release" => lastCall.key \notin DOMAIN lock

\* C9 as amended: acquire_lock returns true exactly when the call reached the
\* store and the key was absent; a release_lock that reached the store leaves
\* the key absent; between two absences of a key at most one acquire_lock
\* has returned true.
C9_LockProtocol ==
    /\ lastCall.op = "acquire" => (lastCall.ret = (lastCall.ok /\ ~lastCall.present))
    /\ (lastCall.op = "release" /\ lastCall.ok) => lastCall.key \notin DOMAIN lock
    /\ \A c \in Channels : Cardinality(holders[c]) <= 1
    /\ \A c \in Channels : holders[c] # {} => c \in DOMAIN lock

C9_Witness ==
    /\ lastCall.op = "acquire"
    /\ lastCall.ok /\ lastCall.present /\ ~lastCall.ret
    /\ holders[lastCall.key] = {lastCall.by}

\* Resolver claims C12 to C15, under Spec and SpecLive.
\* C12 (lost lock, no entry after the wait): a returned call whose read after
\* the sleep found no entry has called extract_stream_url and returns that
\* extraction's outcome, its url on success and None on failure; and no call
\* at all returns None without an extraction that failed.
C12_FallThrough ==
    \A p \in Callers :
        pc[p] = "done"
        => (/\ hist[p].recheck = "miss"
               => (/\ extractRes[p] \in {"ok", "fail"}
                   /\ hist[p].extracts = 1
                   /\ extractRes[p] = "ok" => result[p] = OwnUrl(p)
                   /\ extractRes[p] = "fail" => result[p] = Absent)
            /\ result[p] = Absent => extractRes[p] = "fail")

C12_Witness ==
    \E p, q \in Callers :
        /\ p # q /\ quiet
        /\ pc[p] = "done" /\ ~lock_acquired[p]
        /\ hist[p].recheck = "miss"
        /\ extractRes[p] = "ok" /\ result[p] = OwnUrl(p)
        /\ lock_acquired[q] /\ pc[q] = "running"

\* C13 (bounded waiting): every call makes at most one acquire_lock call, at
\* most one sleep and at most one extract_stream_url call; and a call that is
\* scheduled fairly returns, whatever the other calls do, one that holds the
\* lock and never releases it included.
C13_BoundedWaiting ==
    /\ [](\A p \in Callers :
            hist[p].locks <= 1 /\ hist[p].sleeps <= 1 /\ hist[p].extracts <= 1)
    /\ (pc[FairCaller] # "idle") ~> (pc[FairCaller] = "done")

C13_Witness ==
    \E q \in Callers \ {FairCaller} :
        /\ pc[FairCaller] = "done"
        /\ hist[FairCaller].locks = 1 /\ hist[FairCaller].sleeps = 1
        /\ hist[FairCaller].extracts = 1
        /\ ~lock_acquired[FairCaller]
        /\ lock_acquired[q] /\ pc[q] = "extract" /\ released[q] = "no"
        /\ quiet

Extracted == {q \in Callers : extractRes[q] = "ok"}
FreshEntry(c) == c \in DOMAIN stream /\ ~is_expired(stream[c])
FirstStep(q) ==
    /\ pc[q] \in {"get", "lock"} /\ pc'[q] # pc[q]
    /\ hist[q].seen.kind = "none" /\ hist[q].locks = 0

SawStale(p) == hist[p].seen.kind = "stale"
Returns(p) == pc[p] # "done" /\ pc'[p] = "done"

C17_NoneAfterRetries ==
    /\ Len(e_tool) = r_calls
    /\ r_calls <= YTDLP_MAX_RETRIES + 1
    /\ \A i \in 1..(Len(e_tool) - 1) : e_tool[i] # "ok"
    /\ e_pc = "done"
       => (/\ e_out \in {None, Some("record")}
           /\ e_out = None
              <=> (/\ r_calls = YTDLP_MAX_RETRIES + 1
                   /\ \A i \in DOMAIN e_tool : e_tool[i] # "ok")
           /\ e_out # None <=> e_tool[Len(e_tool)] = "ok"
           /\ semaphore = MAX_CONCURRENT_YTDLP_REQUESTS)

C17_Witness ==
    /\ e_pc = "done"
    /\ e_out = None
    /\ e_tool = <<"nonzero", "timeout", "malformed", "nourl">>
    /\ r_calls = 4

\* Validator claims C18 and C19, under SpecValidate.
\* C18 (classification): an item's status is valid exactly when its
\* extraction produced a url; it is invalid when the tool failed on a missing
\* or unavailable video, error when the tool timed out, and error for any
\* other failure of the tool.
C18_Classification ==
    \A i \in DOMAIN v_status :
        v_status[i] # "none"
        => (/\ v_status[i] = "valid" <=> v_cause[i] = "ok"
            /\ v_cause[i] = "notfound" => v_status[i] = "invalid"
            /\ v_cause[i] = "timeout" => v_status[i] = "error"
            /\ v_cause[i] = "nonzero" => v_status[i] = "error")

\* C19 (progress reporting): when validate_channels_async has returned and a
\* progress_callback was given, the callback was called once per input item
\* and the validated values it received are 1, 2, ..., K in this order.
C19_ProgressSequence ==
    (v_main = "returned" /\ v_callback)
    => v_reported = [i \in 1..Len(v_channels) |-> i]

\* Batch claim, under SpecBatch.
\* C11 (deadline): when batch_get_streams returns after its deadline passed,
\* the dict holds exactly the channels whose get_stream_url had ended by
\* then, each with its result, and the others were cancelled, not run again.
C11_PartialOnDeadline ==
    (b_main = "returned" /\ b_timedout)
    => (/\ DOMAIN b_out = Completed
        /\ \A i \in Completed : b_out[i] = b_task[i]
        /\ \A i \in DOMAIN b_task \ Completed : b_task[i] = "cancelled")

\* Cache claim, under SpecCache.
\* C16 (cache operations never raise): a call that did not reach the store
\* returns None from get_stream_url, False from set_stream_url, invalidate,
\* acquire_lock and release_lock, and an empty list from
\* get_all_cached_channels; a call that reached the store returns the entry,
\* True, or the cached channels; and a get_stream_url call of the resolver
\* whose release_lock failed still returns the url it extracted.
C16_CacheNeverRaises ==
    /\ lastCall.op = "get"
       => (/\ lastCall.ret \in {None} \cup {Some(r) : r \in Records \cup
                                           {Record(p, s) : p \in Callers, s \in BOOLEAN}}
           /\ ~lastCall.ok => lastCall.ret = None
           /\ ~lastCall.present => lastCall.ret = None)
    /\ lastCall.op \in {"set", "invalidate", "release"}
       => lastCall.ret = lastCall.ok
    /\ lastCall.op = "acquire"
       => (lastCall.ret \in BOOLEAN /\ (~lastCall.ok => lastCall.ret = FALSE))
    /\ lastCall.op = "list"
       => (/\ lastCall.ret \subseteq Channels
           /\ ~lastCall.ok => lastCall.ret = {})
    /\ \A p \in Callers :
        (pc[p] = "done" /\ released[p] = "failed")
        => (/\ extractRes[p] = "ok" => result[p] = OwnUrl(p)
            /\ extractRes[p] = "fail" => result[p] = Absent)

C16_Witness ==
    /\ lastCall.op = "list" /\ ~lastCall.ok /\ lastCall.ret = {}
    /\ stream # <<>>
    /\ \E p \in Callers :
        /\ pc[p] = "done" /\ released[p] = "failed"
        /\ extractRes[p] = "ok" /\ result[p] = OwnUrl(p)

\* Lock expiry claim C20, under SpecLockLive.
\* C20 as stated: a held lock key always becomes absent again, and an
\* acquire_lock made after the timeout removed a holder's key, while the key
\* is absent, returns true.
C20_ExpiryThenAcquire ==
    /\ \A c \in Channels : (c \in DOMAIN lock) ~> (c \notin DOMAIN lock)
    /\ []((/\ lastCall.op = "acquire" /\ ~lastCall.present
           /\ timed_out[lastCall.key] # {})
          => lastCall.ret)

\* C20 as amended: a held lock key always becomes absent again, released or
\* not; an acquire_lock made while the key is absent returns true when it
\* reaches the store, and false when it does not; a key removed by its
\* timeout has no holder left.
C20_LockSelfHeals ==
    /\ \A c \in Channels : (c \in DOMAIN lock) ~> (c \notin DOMAIN lock)
    /\ [](lastCall.op = "acquire" /\ ~lastCall.present
          => lastCall.ret = lastCall.ok)
    /\ [][\A c \in Channels :
            (c \in DOMAIN lock /\ c \notin DOMAIN lock' /\ lastCall' = lastCall)
            => (holders'[c] = {} /\ timed_out'[c] = holders[c])]_vars

C20_Witness ==
    \E p, q \in Callers :
        /\ p # q
        /\ lastCall.op = "acquire" /\ lastCall.by = q
        /\ lastCall.ok /\ ~lastCall.present /\ lastCall.ret
        /\ timed_out[lastCall.key] = {p}
        /\ holders[lastCall.key] = {q}

\* Lock claim C21, under SpecLock.
\* C21 as stated: release_lock on a key that is absent returns True and
\* leaves the store unchanged, and a release_lock that follows a release_lock
\* on the same key leaves the store as the first one left it.
C21_ReleaseIdempotent ==
    [][\A p \in Callers, c \in Channels :
        (DirectRelease(p, c) /\ c \notin DOMAIN lock)
        => (/\ lastCall'.ret
            /\ lock' = lock /\ stream' = stream)]_vars

\* C21 as amended: release_lock on a key that is absent leaves the store
\* unchanged and returns True exactly when it reached the store; after a
\* release_lock that reached the store the key is absent, so one more
\* release_lock on it changes nothing; a release_lock that did not reach the
\* store changes nothing either.
C21_ReleaseIdempotentReached ==
    [][\A p \in Callers, c \in Channels :
        DirectRelease(p, c)
        => (/\ lastCall'.ret = lastCall'.ok
            /\ stream' = stream
            /\ c \notin DOMAIN lock => lock' = lock
            /\ lastCall'.ok => (c \notin DOMAIN lock' /\ lock' = Del(lock, c))
            /\ ~lastCall'.ok => lock' = lock
            /\ (lastCall.op = "release" /\ lastCall.key = c /\ lastCall.ok)
               => lock' = lock)]_vars

C21_Witness ==
    /\ lastCall.op = "release"
    /\ lastCall.ok /\ ~lastCall.present /\ lastCall.ret
    /\ timed_out[lastCall.key] # {}
    /\ lock # <<>>

\* Cache claims C22 and C23, under SpecRoundTrip.
\* C22 as stated: get_stream_url returns the record of the last
\* set_stream_url that succeeded, as long as the entry has not lapsed and
\* was not invalidated, and None when there is no such entry.
C22_RoundTrip ==
    k_call.op = "get"
    => (/\ k_src[k_call.key] = None => k_call.ret = None
        /\ k_src[k_call.key] # None => k_call.ret = k_src[k_call.key])

\* C22 as amended: set_stream_url succeeds exactly when it reaches the store
\* and the record is JSON serializable; while the entry is in force a
\* get_stream_url that reaches the store returns the record as json.loads
\* reads it back, with every key a str, which equals the record exactly when
\* the record has str keys and no tuple; get_stream_url returns None when it
\* does not reach the store or there is no entry in force.
C22_RoundTripJson ==
    /\ DOMAIN k_db = {c \in Channels : k_src[c] # None}
    /\ k_call.op = "set"
       => (/\ k_call.ret = (k_call.ok /\ Serializable(k_call.arg))
           /\ k_call.ret => k_src[k_call.key] = Some(k_call.arg))
    /\ k_call.op = "get"
       => (/\ (~k_call.ok \/ k_src[k_call.key] = None) => k_call.ret = None
           /\ (k_call.ok /\ k_src[k_call.key] # None)
              => (/\ k_call.ret # None
                  /\ \A k \in DOMAIN k_call.ret[1] : k.t = "str"
                  /\ Cardinality(DOMAIN k_call.ret[1])
                        = Cardinality(DOMAIN k_src[k_call.key][1])
                  /\ Faithful(k_src[k_call.key][1])
                        <=> k_call.ret = k_src[k_call.key]))

C22_Witness ==
    /\ k_call.op = "get" /\ k_call.ok
    /\ k_src[k_call.key] # None
    /\ k_src[k_call.key][1] # EmptyDict
    /\ Faithful(k_src[k_call.key][1])
    /\ k_call.ret = k_src[k_call.key]

\* C23 as stated: get_or_set calls fetch_func only when the key has no
\* entry; and a get_or_set that follows a get_or_set which returned a
\* non-empty record, with that record's entry present, returns the same
\* record and does not call fetch_func.
C23_FetchOnlyOnMiss ==
    /\ [](k_call.op = "get_or_set" /\ k_call.fetched => ~k_call.present)
    /\ [][\A c \in CalledChannels :
            (/\ KGetOrSet(c)
             /\ k_call.op = "get_or_set" /\ k_call.key = c
             /\ k_call.ret # None /\ k_call.ret # Some(EmptyDict)
             /\ k_src[c] = k_call.ret)
            => (~k_call'.fetched /\ k_call'.ret = k_call.ret)]_vars

\* C23 as amended: get_or_set calls fetch_func exactly when its read gave
\* nothing truthy: the read did not reach the store, the key has no entry, or
\* the entry is an empty record; a non-empty serializable record it fetched
\* becomes the entry when the write reaches the store; a call that did not
\* fetch leaves the entry alone and returns it as json.loads reads it; and a get_or_set that reaches
\* the store after a get_or_set which returned a non-empty record, with that
\* record's entry present, does not call fetch_func and returns the same
\* record when the record has str keys and no tuple.
C23_GetOrSetCacheAside ==
    /\ [](k_call.op = "get_or_set"
          => (/\ k_call.fetched
                 <=> ~(/\ k_call.ok /\ k_call.present
                       /\ k_call.src # Some(EmptyDict))
              /\ k_call.fetched
                 => k_src[k_call.key]
                      = IF /\ k_call.okSet
                           /\ k_call.ret # None /\ k_call.ret # Some(EmptyDict)
                           /\ Serializable(k_call.ret[1])
                        THEN k_call.ret ELSE k_call.src
              /\ ~k_call.fetched
                 => (/\ k_src[k_call.key] = k_call.src
                     /\ k_call.ret # None
                     /\ Faithful(k_call.src[1]) <=> k_call.ret = k_call.src)))
    /\ [][\A c \in CalledChannels :
            (/\ KGetOrSet(c)
             /\ k_call.op = "get_or_set" /\ k_call.key = c
             /\ k_call.ret # None /\ k_call.ret # Some(EmptyDict)
             /\ k_src[c] = k_call.ret
             /\ k_call'.ok)
            => (/\ ~k_call'.fetched
                /\ Faithful(k_call.ret[1]) => k_call'.ret = k_call.ret)]_vars

C23_Witness ==
    /\ k_call.op = "get_or_set" /\ k_call.after = "get_or_set"
    /\ k_call.ok /\ k_call.present /\ ~k_call.fetched
    /\ k_call.src # Some(EmptyDict)
    /\ Faithful(k_call.src[1])
    /\ k_call.ret = k_call.src

\* Validator gate claim C24, under SpecGate.
\* C24 (validator gate): at most VALIDATOR_CONCURRENCY validate_channel
\* bodies are inside the validator's semaphore at any time, the semaphore's
\* free slots are what these leave, and the extractions of the batch that
\* are running the tool are at most the smaller of VALIDATOR_CONCURRENCY and
\* MAX_CONCURRENT_YTDLP_REQUESTS.
InsideValidatorGate == {i \in DOMAIN v_task : v_task[i] \in {"extract", "running"}}
RunningExtractions == {i \in DOMAIN v_task : v_task[i] = "running"}
C24_ValidatorGate ==
    /\ Cardinality(InsideValidatorGate) <= VALIDATOR_CONCURRENCY
    /\ v_sem = VALIDATOR_CONCURRENCY - Cardinality(InsideValidatorGate)
    /\ Cardinality(RunningExtractions)
         <= Min(VALIDATOR_CONCURRENCY, MAX_CONCURRENT_YTDLP_REQUESTS)
    /\ UsesGlobalGate(v_shared)
       => Cardinality(RunningExtractions)
            + Cardinality({p \in Callers : x_pc[p] = "running"})
            <= MAX_CONCURRENT_YTDLP_REQUESTS

C24_Witness ==
    /\ Cardinality(InsideValidatorGate) = VALIDATOR_CONCURRENCY
    /\ \E i \in DOMAIN v_task : v_task[i] = "gate"
    /\ v_sem = 0
    /\ \E i \in DOMAIN v_task : v_task[i] = "extract"
    /\ UsesGlobalGate(v_shared) /\ semaphore = 0
    /\ x_pc[FairCaller] = "running"

\* Channel independence claim C25, under SpecIndep.
\* C25 (channel independence): no step of a get_stream_url call changes the
\* cache entry or the lock key of a channel other than the one it was called
\* for.
SameKey(f, g, c) ==
    /\ c \in DOMAIN f <=> c \in DOMAIN g
    /\ c \in DOMAIN f => f[c] = g[c]
C25_ChannelIndependence ==
    [][\A p \in Callers :
        CallerStep(p)
        => \A c \in Channels \ {chan[p]} :
            /\ SameKey(stream, stream', c)
            /\ SameKey(lock, lock', c)]_vars

C25_Witness ==
    \E p, q \in Callers :
        /\ chan[p] # chan[q]
        /\ pc[p] = "done" /\ released[p] = "ok" /\ result[p] = OwnUrl(p)
        /\ chan[p] \in DOMAIN stream /\ stream[chan[p]].url = p
        /\ pc[q] = "extract" /\ HoldsOwnLock(q)
        /\ chan[q] \in DOMAIN stream /\ stream[chan[q]].url = OldUrl

\* Refresh claim C26, under SpecRefresh.
\* C26 (verify_and_refresh_streams): at most one get_stream_url of the loop
\* is running at a time and it is the one of the first channel without an
\* entry; the entries appended so far are those of the first channels, in
\* input order, each with status online exactly when its get_stream_url
\* returned a url and offline exactly when it returned None; the returned
\* list has one entry per input channel.
C26_RefreshInOrder ==
    /\ Cardinality({i \in DOMAIN f_call : f_call[i] = "running"}) <= 1
    /\ \A i \in DOMAIN f_call :
        /\ f_call[i] = "running" => i = Len(f_results) + 1
        /\ f_call[i] # "notstarted"
           => \A j \in 1..(i - 1) : f_call[j] \in BatchResults
    /\ Len(f_results) <= Len(f_channels)
    /\ \A i \in DOMAIN f_results :
        /\ f_results[i].at = i
        /\ f_results[i].name = f_channels[i]
        /\ f_results[i].stream_url = f_call[i]
        /\ f_results[i].status \in {"online", "offline"}
        /\ f_results[i].status = "online" <=> f_call[i] = "url"
        /\ f_results[i].status = "offline" <=> f_call[i] = "None"
    /\ f_main = "returned" => Len(f_results) = Len(f_channels)

C26_Witness ==
    /\ f_main = "returned"
    /\ Len(f_channels) = NumItems
    /\ f_channels[1] = f_channels[NumItems]
    /\ f_results[1].status = "online"
    /\ f_results[NumItems].status = "offline"

\* Lock ownership claims C27 and C28, under Spec.
\* C27 (only the holder releases): a step of a get_stream_url call removes
\* the lock key of its channel only if the call's own acquire_lock returned
\* True and the key present is the one that call created.
C27_OnlyHolderReleases ==
    [][\A p \in Callers :
        (/\ CallerStep(p)
         /\ chan[p] \in DOMAIN lock
         /\ chan[p] \notin DOMAIN lock')
        => (lock_acquired[p] /\ lock[chan[p]] = p)]_vars

\* C28 (the lock covers the whole extraction): from the acquire_lock that
\* returned True to a call until that call's release_lock, the lock key of
\* the channel is in the store and is the one the call created, so that no
\* other acquire_lock on it returns True meanwhile.
C28_LockCoversExtraction ==
    \A p \in Callers :
        (lock_acquired[p] /\ pc[p] \in {"extract", "running", "set", "release"})
        => HoldsOwnLock(p)

\* Attribution claim C29, under SpecValidate.
\* C29 (result-to-channel correspondence): when validate_channels_async has
\* returned for channels that all carry a url, the status that the zip of
\* channels and results records for a channel is the status of the
\* validation result of that channel's url.
C29_ResultOfOwnUrl ==
    (v_main = "returned" /\ \A i \in DOMAIN v_channels : v_channels[i] # 0)
    => \A i \in DOMAIN zip_status(v_channels, v_results) :
        zip_status(v_channels, v_results)[i].status = v_status[i]

\* Cache-hit claim C30, under Spec.
\* C30 (the cache-hit path is terminal and changes nothing shared): the
\* cache read of a call with use_cache = True that finds a record not yet
\* expired ends the call with that record's url and leaves the entry, the
\* lock key and the extractor's gate as they were; such a call has called
\* neither invalidate, acquire_lock, extract_stream_url, set_stream_url nor
\* release_lock.
C30_HitIsTerminal ==
    /\ [][\A q \in Callers :
            (/\ CacheGet(q)
             /\ hist'[q].seen.kind = "fresh")
            => (/\ use_cache[q]
                /\ pc'[q] = "done"
                /\ result'[q] = Url(stream[chan[q]], "cache")
                /\ stream' = stream /\ lock' = lock
                /\ semaphore' = semaphore)]_vars
    /\ [](\A q \in Callers :
            hist[q].seen.kind = "fresh"
            => (/\ pc[q] = "done"
                /\ hist[q].invalidations = 0 /\ hist[q].locks = 0
                /\ hist[q].sleeps = 0 /\ hist[q].extracts = 0
                /\ extractRes[q] = "notcalled"
                /\ ~lock_acquired[q]
                /\ released[q] = "no"))

C30_Witness ==
    \E p, q \in Callers :
        /\ p # q
        /\ pc[q] = "done" /\ use_cache[q]
        /\ hist[q].seen = [kind |-> "fresh", url |-> OldUrl]
        /\ result[q] = Url(Record(OldUrl, FALSE), "cache")
        /\ released[q] = "no"
        /\ chan[q] \in DOMAIN stream /\ stream[chan[q]] = Record(OldUrl, FALSE)
        /\ pc[p] = "running" /\ HoldsOwnLock(p)


\* Lost-race claim C31, under Spec.
\* C31 (lost lock race, entry present after the wait): the read after the
\* sleep of a call whose acquire_lock returned False, when it finds an entry,
\* ends the call with that entry's url and leaves the entry, the lock key and
\* the extractor's gate as they were; such a call has called neither
\* extract_stream_url, set_stream_url nor release_lock.
C31_LostRaceHit ==
    /\ [][\A q \in Callers :
            (/\ SleepThenGet(q)
             /\ hist'[q].recheck = "hit")
            => (/\ ~lock_acquired[q]
                /\ pc'[q] = "done"
                /\ result'[q] = Url(stream[chan[q]], "cache")
                /\ stream' = stream /\ lock' = lock
                /\ semaphore' = semaphore)]_vars
    /\ [](\A q \in Callers :
            hist[q].recheck = "hit"
            => (/\ pc[q] = "done"
                /\ hist[q].locks = 1 /\ hist[q].sleeps = 1
                /\ hist[q].extracts = 0
                /\ extractRes[q] = "notcalled"
                /\ ~lock_acquired[q]
                /\ released[q] = "no"))

C31_Witness ==
    \E p, q \in Callers :
        /\ p # q
        /\ pc[q] = "done" /\ hist[q].recheck = "hit"
        /\ chan[q] \in DOMAIN stream /\ stream[chan[q]] = Record(p, FALSE)
        /\ result[q] = Url(Record(p, FALSE), "cache")
        /\ released[q] = "no" /\ extractRes[q] = "notcalled"
        /\ pc[p] = "release" /\ HoldsOwnLock(p)

\* Protocol-order claim C32, under Spec.
SuccessfulHolder(p) == lock_acquired[p] /\ extractRes[p] = "ok"

\* C32 as stated: once a call that acquired the lock and extracted
\* successfully has released the lock, with the store available and the lock
\* key gone, the channel's entry is in the cache.
C32_EntryWhenLockFree ==
    \A p \in Callers :
        (/\ SuccessfulHolder(p) /\ pc[p] = "done" /\ released[p] = "ok"
         /\ quiet /\ chan[p] \notin DOMAIN lock)
        => chan[p] \in DOMAIN stream

\* C32 as amended (protocol order of the lock holder): a call that acquired
\* the lock runs acquire_lock, extract_stream_url, set_stream_url,
\* release_lock and the return in this order: the extraction starts after the
\* lock step, set_stream_url runs after the successful extraction and before
\* release_lock and leaves the lock key alone, release_lock runs after the
\* write and leaves the entry alone.  With the store available the write
\* puts the call's record in the cache, and the entry is still there when
\* the holder has released unless another call that had read an expired
\* record has called invalidate.
C32_HolderOrder ==
    /\ [](\A p \in Callers :
            lock_acquired[p]
            => (/\ hist[p].locks = 1 /\ hist[p].sleeps = 0
                /\ pc[p] \in {"extract", "running", "set", "release", "done"}
                /\ pc[p] = "extract"
                   => (extractRes[p] = "notcalled" /\ hist[p].extracts = 0)
                /\ pc[p] \in {"extract", "running", "set"}
                   => (result[p] = Pending /\ released[p] = "no")
                /\ pc[p] = "set" => extractRes[p] = "ok"
                /\ pc[p] = "release"
                   => (/\ released[p] = "no"
                       /\ extractRes[p] = "ok" => result[p] = OwnUrl(p))
                /\ pc[p] = "done"
                   => (/\ released[p] # "no"
                       /\ extractRes[p] = "ok" => result[p] = OwnUrl(p))))
    /\ [][\A p \in Callers :
            (CacheSet(p) /\ lock_acquired[p])
            => (/\ extractRes[p] = "ok" /\ released'[p] = "no"
                /\ lock' = lock
                /\ pc'[p] = "release"
                /\ quiet' => (/\ chan[p] \in DOMAIN stream'
                              /\ stream'[chan[p]] = Record(p, FALSE)))]_vars
    /\ [][\A p \in Callers :
            (ReleaseLock(p) /\ SuccessfulHolder(p))
            => (/\ result[p] = OwnUrl(p)
                /\ stream' = stream
                /\ pc'[p] = "done"
                /\ quiet' => chan[p] \notin DOMAIN lock')]_vars
    /\ [](\A p \in Callers :
            (SuccessfulHolder(p) /\ pc[p] \in {"release", "done"} /\ quiet)
            => \/ chan[p] \in DOMAIN stream /\ stream[chan[p]].url \in Extracted
               \/ \E q \in Callers \ {p} :
                    SawStale(q) /\ hist[q].invalidations = 1)

C32_Witness ==
    \E p, q \in Callers :
        /\ p # q /\ quiet
        /\ SuccessfulHolder(p) /\ pc[p] = "done" /\ released[p] = "ok"
        /\ chan[p] \notin DOMAIN lock
        /\ chan[p] \in DOMAIN stream /\ stream[chan[p]] = Record(p, FALSE)
        /\ pc[q] = "lock"

\* Write claims C33 and C34, under Spec.
\* A step writes the stream key of channel c: the key holds a record it did
\* not hold before.
Writes(c) ==
    /\ c \in DOMAIN stream'
    /\ c \notin DOMAIN stream \/ stream'[c] # stream[c]

\* C33 (no write on failure, no negative caching): a call whose extraction
\* failed goes to release_lock and returns None without calling
\* set_stream_url; the only step of a call that writes a stream key is the
\* set_stream_url that follows its successful extraction, and it writes the
\* record of that extraction under the call's own channel; so every record in
\* the cache is one that was there before the run or the record of a
\* successful extraction.
C33_NoWriteOnFailure ==
    /\ [](\A p \in Callers :
            extractRes[p] = "fail"
            => (pc[p] \in {"release", "done"} /\ result[p] = Absent))
    /\ [][\A p \in Callers :
            (ExtractFail(p) \/ (CallerStep(p) /\ extractRes[p] = "fail"))
            => stream' = stream]_vars
    /\ [][\A p \in Callers, c \in Channels :
            (CallerStep(p) /\ Writes(c))
            => (/\ CacheSet(p) /\ extractRes[p] = "ok"
                /\ c = chan[p]
                /\ stream'[c] = Record(p, FALSE))]_vars
    /\ [](\A c \in DOMAIN stream :
            \/ c \in DOMAIN stream0 /\ stream[c].url = stream0[c].url
            \/ stream[c].url \in Extracted)

C33_Witness ==
    \E p, q \in Callers :
        /\ p # q
        /\ pc[p] = "done" /\ extractRes[p] = "fail" /\ result[p] = Absent
        /\ lock_acquired[p] /\ released[p] = "ok"
        /\ stream0 = <<>> /\ stream = <<>>
        /\ pc[q] = "running"

\* C34 (use_cache = False bypasses the cache as a source): a returned call
\* made with use_cache = False has read no record in its first step and never
\* returns a url read from the cache: a url it returns is that of its own
\* successful extraction.  Stated for the runs in which no store operation
\* fails and no key lapses.
C34_BypassCache ==
    \A p \in Callers :
        (pc[p] = "done" /\ ~use_cache[p] /\ quiet)
        => (/\ hist[p].seen.kind = "none"
            /\ result[p].kind = "url"
               => (extractRes[p] = "ok" /\ result[p] = OwnUrl(p)))

\* Validation task claims C35 and C36, under SpecTask.
TaskStatus == IF TaskId \in DOMAIN validation_tasks
              THEN validation_tasks[TaskId].status ELSE "none"

\* C35 (ValidationTask lifecycle): the task is created with status running;
\* once created it stays in validation_tasks; its status changes only from
\* running to completed or from running to failed, and completed and failed
\* are never left; and, every item's validation ending, a task that is
\* running eventually is not.
C35_TaskLifecycle ==
    /\ [](TaskStatus \in {"none", "running", "completed", "failed"})
    /\ [][TaskStatus = "none" => TaskStatus' \in {"none", "running"}]_vars
    /\ [][TaskStatus' # TaskStatus
           => \/ TaskStatus = "none" /\ TaskStatus' = "running"
              \/ TaskStatus = "running" /\ TaskStatus' \in {"completed", "failed"}]_vars
    /\ (TaskStatus = "running") ~> (TaskStatus \in {"completed", "failed"})

C35_Witness ==
    /\ TaskStatus = "completed"
    /\ t_pc = "finished"
    /\ Len(v_channels) = NumItems
    /\ Len(validation_tasks[TaskId].results) = NumItems
    /\ validation_tasks[TaskId].progress.succeeded > 0
    /\ validation_tasks[TaskId].progress.failed > 0

\* The number of results with status valid.
ValidResults(results) ==
    Cardinality({i \in DOMAIN results : results[i].status = "valid"})

\* C36 (ValidationTask counters): in every state of the task,
\* 0 <= validated <= total and succeeded + failed <= total; once the task is
\* completed, validated = total, succeeded + failed = total and succeeded is
\* the number of results with status valid.
C36_TaskCounters ==
    TaskId \in DOMAIN validation_tasks
    => LET task == validation_tasks[TaskId]
           p == task.progress IN
        /\ 0 <= p.validated /\ p.validated <= p.total
        /\ p.succeeded + p.failed <= p.total
        /\ task.status = "completed"
           => (/\ p.validated = p.total
               /\ p.succeeded + p.failed = p.total
               /\ p.succeeded = ValidResults(task.results))

\* Gate claim C37, under SpecSlots.
\* C37 (gate slots do not leak, waiters are admitted): the free slots of the
\* gate plus the calls admitted and not yet returned are always
\* MAX_CONCURRENT_YTDLP_REQUESTS, so each such call holds one slot, through
\* every attempt and every backoff sleep, and a returned call holds none,
\* whether it returned a record or None; with no call admitted all slots are
\* free; a slot is taken only by an admission and freed only by a return;
\* and every call waiting at the gate is eventually admitted.
C37_NoSlotLeak ==
    /\ [](/\ semaphore >= 0
          /\ semaphore + Cardinality(InsideGate) = MAX_CONCURRENT_YTDLP_REQUESTS
          /\ InsideGate = {} => semaphore = MAX_CONCURRENT_YTDLP_REQUESTS
          /\ \A p \in ExtractCalls :
                /\ g_pc[p] = "done" <=> g_out[p] # "pending"
                /\ g_attempt[p] <= YTDLP_MAX_RETRIES
                /\ g_pc[p] = "sleep" => g_attempt[p] < YTDLP_MAX_RETRIES)
    /\ [][/\ (\A p \in ExtractCalls :
                /\ ((GRun(p) \/ GWake(p)) /\ g_pc'[p] \in {"try", "sleep"})
                   => semaphore' = semaphore
                /\ (g_pc[p] = "waiting" /\ g_pc'[p] # "waiting")
                   => (g_pc'[p] = "try" /\ semaphore > 0 /\ semaphore' = semaphore - 1)
                /\ (g_pc[p] # "done" /\ g_pc'[p] = "done")
                   => (g_pc[p] = "try" /\ semaphore' = semaphore + 1))
           /\ (semaphore' < semaphore => (\E q \in ExtractCalls : GAdmit(q)))
           /\ (semaphore' > semaphore
                => (\E r \in ExtractCalls : GRun(r) /\ g_pc'[r] = "done"))]_vars
    /\ \A p \in ExtractCalls :
        (g_pc[p] = "waiting") ~> (g_pc[p] \in {"try", "sleep", "done"})

C37_Witness ==
    \E p, q \in ExtractCalls :
        /\ g_pc[p] = "waiting"
        /\ semaphore = 0
        /\ g_pc[q] = "sleep" /\ g_attempt[q] = YTDLP_MAX_RETRIES - 1

\* Backoff claim C38, under SpecRetry.
\* C38 (backoff schedule): one sleep follows every failed attempt but the
\* last and nothing else: before attempt k there have been k sleeps, a
\* returned call has slept once per failed attempt, a raised call has slept
\* max_retries times.  With jitter disabled the sleep after failed attempt k
\* lasts min(initial_delay * exponential_base^k, max_delay), so the delays
\* never exceed max_delay and never decrease (exponential_base >= 1).  Delays
\* are counted in half seconds.
C38_BackoffSchedule ==
    /\ r_pc = "try" => (Len(r_delays) = r_attempt /\ r_calls = r_attempt)
    /\ r_pc = "sleep"
       => (/\ Len(r_delays) = r_attempt + 1 /\ r_calls = r_attempt + 1
           /\ r_attempt < r_cfg.max_retries)
    /\ r_pc = "returned"
       => (Len(r_delays) = r_calls - 1 /\ Len(r_delays) = Len(r_errs))
    /\ r_pc = "raised"
       => (Len(r_delays) = r_cfg.max_retries /\ Len(r_errs) = Len(r_delays) + 1)
    /\ ~r_cfg.jitter
       => (/\ \A i \in DOMAIN r_delays :
                LET k == i - 1
                    grown == r_cfg.initial_delay * Pow(r_cfg.exponential_base, k) IN
                /\ r_delays[i] = 2 * (IF grown <= r_cfg.max_delay
                                      THEN grown ELSE r_cfg.max_delay)
                /\ r_delays[i] <= 2 * r_cfg.max_delay
           /\ \A i, j \in DOMAIN r_delays : i <= j => r_delays[i] <= r_delays[j])

C38_Witness ==
    /\ r_pc = "raised" /\ ~r_cfg.jitter
    /\ r_cfg.max_retries = MaxRetries
    /\ r_cfg.initial_delay = 2 /\ r_cfg.exponential_base = 2 /\ r_cfg.max_delay = 3
    /\ Len(r_delays) = MaxRetries
    /\ r_delays[1] = 4 /\ r_delays[2] = 6

\* ------------------------------------------------------------------- C39
\* The last call was a _sync_fetch_stream_url that returned a record.
FetchReturned ==
    /\ n_call # <<>>
    /\ n_call.op = "fetch"
    /\ n_call.out.kind = "return"

\* The url, format and protocol of the record r built from the JSON output
\* info: the url is info's own url or, when that is empty, the url of its
\* first format, and it is not empty; format and protocol are read from it.
RecordShape(info, r) ==
    /\ r.url # NoUrl
    /\ r.url = IF info.url # NoUrl THEN info.url ELSE info.formats.urls[1]
    /\ r.format = IF \E i \in 1..Len(r.url) :
                        /\ i + 4 <= Len(r.url)
                        /\ <<r.url[i], r.url[i+1], r.url[i+2], r.url[i+3], r.url[i+4]>> = M3u8
                  THEN "hls" ELSE "dash"
    /\ r.protocol = IF /\ Len(r.url) >= 5
                       /\ <<r.url[1], r.url[2], r.url[3], r.url[4], r.url[5]>> = Https
                    THEN "https" ELSE "http"

\* The instant that a text written by isoformat() names.
InstantOf(text) == CHOOSE t \in 0..99 : isoformat(t) = text

\* C39 as stated: a successful extraction yields a record with a non-empty
\* url, format hls exactly when the url carries .m3u8 and dash otherwise,
\* protocol https exactly when the url starts with https and http otherwise,
\* and expires_at equal to fetched_at plus one hour.
C39_ExpiresFromFetchedAt ==
    FetchReturned =>
        LET r == n_call.out.value IN
        /\ RecordShape(n_call.info, r)
        /\ InstantOf(r.expires_at) = InstantOf(r.fetched_at) + Hour

\* C39: a successful extraction yields a record with a non-empty url, format
\* hls exactly when the url carries .m3u8 and dash otherwise, protocol https
\* exactly when the url starts with https and http otherwise, and expires_at
\* one hour after the clock reading taken when the record is built;
\* fetched_at is a second, later reading of the clock, so expires_at is at
\* most fetched_at plus one hour, and equal to it only when the clock did not
\* advance between the two readings.  The call returns a record exactly when
\* the output holds a non-empty url, of its own or in its first format.
C39_RecordConstruction ==
    /\ FetchReturned =>
        LET r == n_call.out.value IN
        /\ RecordShape(n_call.info, r)
        /\ InstantOf(r.expires_at) = n_call.t1 + Hour
        /\ InstantOf(r.fetched_at) = n_call.t2
        /\ InstantOf(r.expires_at) <= InstantOf(r.fetched_at) + Hour
        /\ (InstantOf(r.expires_at) = InstantOf(r.fetched_at) + Hour) <=> (n_call.t1 = n_call.t2)
    /\ (n_call # <<>> /\ n_call.op = "fetch") =>
        (n_call.out.kind = "return" <=>
            \/ n_call.info.url # NoUrl
            \/ /\ n_call.info.formats.urls # <<>>
               /\ n_call.info.formats.urls[1] # NoUrl)

\* C39 witness: a record built from the url of the first format, an https
\* HLS url, with the clock advancing between the two readings.
C39_Witness ==
    /\ FetchReturned
    /\ n_call.info.url = NoUrl
    /\ n_call.out.value.format = "hls"
    /\ n_call.out.value.protocol = "https"
    /\ n_call.t2 > n_call.t1

\* ------------------------------------------------------------------- C40
\* The instants that the expires_at of stream_data names, when it is a text
\* as isoformat() writes it: none when the key is missing, null or another
\* text.
ExpiryInstants(stream_data) ==
    {t \in 0..99 :
        /\ "expires_at" \in DOMAIN stream_data
        /\ stream_data.expires_at.type = "str"
        /\ stream_data.expires_at.s = isoformat(t)}

====
